---- MODULE Spec2Model ----
(***************************************************************************)
(* Model of the recommendation-and-assembly pipeline of                    *)
(* src/src-tauri/src/main.rs: the structured-response extractor, the       *)
(* completion client (gemini_generate_json), the selection engine          *)
(* (select_best_tones / postprocess_selected_indices), the pool builder    *)
(* (build_gear_pool / build_tone_pool) and the run (run_download_inner     *)
(* with download_models_for_tone_component).                               *)
(*                                                                         *)
(* Texts are sequences of tokens.  A token is a lexical unit of a          *)
(* response: "{", "}", "[", "]", "kv" (one well-formed member of an        *)
(* object), "kvnl" (a member whose string value holds a raw line break,    *)
(* which serde_json rejects), "x" (prose), "fence" (three backticks),      *)
(* "json" (the word json), "sp" (blank) and "nl" (line break).             *)
(***************************************************************************)
EXTENDS Integers, Sequences, FiniteSets, TLC

VARIABLES
    \* gemini_generate_json
    g_pc,           \* "idle" | "attempt" | "done"
    g_prompt,       \* the prompt of the call
    attempt,        \* loop variable of `for attempt in 0..2`
    g_sent,         \* requests sent by the call: <<[prompt, corrective]>>
    g_recv,         \* responses received by the call
    last_error,     \* extraction failure of the last attempt
    g_result        \* Result<Value, String> of the call

gvars == <<g_pc, g_prompt, attempt, g_sent, g_recv, last_error, g_result>>

VARIABLES
    \* select_best_tones
    s_pc,           \* "idle" | "called" | "done"
    tones,          \* the candidate pool given to the call
    max_selections, \* the maximum selection count
    s_completion,   \* what the completion call gave: [ok, indices]
    selected_tones  \* the selection returned

svars == <<s_pc, tones, max_selections, s_completion, selected_tones>>

VARIABLES
    \* build_gear_pool / build_tone_pool
    p_pc,           \* "idle" | "primary" | "fallback" | "done" | "failed"
    p_fn,           \* which of the two functions runs
    primary_queries,
    fallback_queries,
    p_gear,         \* the gear filter sent with each search ("" for none)
    max_results_to_analyze,
    p_next,         \* index of the next query of the current loop
    all_tones,      \* the pool accumulated so far
    p_searches      \* searches issued by the call, with what they returned

pvars == <<p_pc, p_fn, primary_queries, fallback_queries, p_gear,
           max_results_to_analyze, p_next, all_tones, p_searches>>

VARIABLES
    \* run_download / run_download_inner
    r_pc,           \* position of the run
    payload,        \* the RunRequest
    key_env,        \* the keys of the environment variables and of keys.txt
    max_tones,      \* effective max preset count
    max_results,    \* effective per-query cap
    analysis,       \* the Analysis
    amp_pool,
    selected_amps,
    index,          \* zero-based index of the preset being assembled
    needs_cab,
    cab_pool,
    selected_cab,   \* the cab of the current preset, NoTone if none
    used_cab_ids,
    rig_presets,
    d_role,         \* component being acquired: "amp" | "cab"
    all_models,     \* models listed for the component
    selected_models,
    d_next,         \* index of the next selected model
    model_items,    \* the DownloadRecords
    downloaded_count,
    fs,             \* files on disk: path -> content
    requested,      \* the paths of the calls of download_model, in order
    download_error, \* the Err of the latest call of download_model, "" if none
    catalog_answer, \* what the catalog answers to the searches of a pool build
    outage,         \* the completion service fails every request of this run
    r_result        \* what run_download returns

rvars == <<r_pc, payload, key_env, max_tones, max_results, analysis, amp_pool, selected_amps,
           index, needs_cab, cab_pool, selected_cab, used_cab_ids, rig_presets,
           d_role, all_models, selected_models, d_next, model_items,
           downloaded_count, fs, requested, download_error, catalog_answer, outage,
           r_result>>

VARIABLES
    \* analyze_tone_request
    a_pc,           \* "idle" | "called" | "done"
    user_request,   \* the text given to the call
    a_completion,   \* what the completion call gave: [ok, value]
    a_analysis      \* the Analysis returned

avars == <<a_pc, user_request, a_completion, a_analysis>>

VARIABLES
    \* filter_models
    f_pc,           \* "idle" | "called" | "done"
    f_models,       \* the models listed for the tone
    f_completion,   \* what the completion call gave: [ok, indices]
    f_selected      \* the models returned

fvars == <<f_pc, f_models, f_completion, f_selected>>

VARIABLES
    \* two runs at one iteration of the download loop, for the same target path
    c_pc,           \* per run: "idle" | "exists" | "send" | "create" | "chunk" | "done"
    c_file,         \* the file at the target path: [exists, bytes]
    c_offset,       \* per run: the bytes written through its file handle
    c_items         \* per run: the status of the record pushed, or "none"

cvars == <<c_pc, c_file, c_offset, c_items>>

VARIABLES
    \* the reasons returned by select_best_tones and filter_models
    n_pc,           \* "idle" | "called" | "done"
    n_fn,           \* "select" | "filter"
    n_list,         \* the tones or the models given
    n_max,          \* max_selections
    n_completion,   \* what the completion call gave: [ok, indices]
    n_items,        \* "selection_reasons" or "model_reasons" of the object given
    n_selected,     \* the first list returned
    n_reasons       \* the second list returned

nvars == <<n_pc, n_fn, n_list, n_max, n_completion, n_items, n_selected, n_reasons>>

VARIABLES
    \* one call of a function without side effects
    u_pc,           \* "idle" | "called" | "done"
    u_fn,           \* the function called
    u_arg,          \* its argument
    u_out           \* what it returned

uvars == <<u_pc, u_fn, u_arg, u_out>>

VARIABLES
    \* two runs of the post-processing on the same inputs
    w_in,           \* the request, the collaborators' answers and the files found
    w_pc,           \* per run: the stages completed, 0..5
    w_out           \* per run: analysis, pool, selection, models, records

wvars == <<w_in, w_pc, w_out>>

VARIABLES
    \* the meter of a run
    completions     \* the requests the run has sent to the completion service

bvars == <<completions>>

\* The components that take no part in a run.
qvars == <<svars, avars, fvars, cvars, nvars, uvars, wvars, bvars>>

vars == <<gvars, pvars, rvars, qvars>>

----------------------------------------------------------------------------
(* Sequences *)

Range(s) == {s[i] : i \in 1..Len(s)}

Take(s, n) == SubSeq(s, 1, IF n < Len(s) THEN n ELSE Len(s))

Min(a, b) == IF a < b THEN a ELSE b

\* All sequences over S of length at most n.
SeqsUpTo(S, n) == UNION {[1..k -> S] : k \in 0..n}

RECURSIVE Concat(_)
Concat(ss) == IF ss = <<>> THEN <<>> ELSE Head(ss) \o Concat(Tail(ss))

----------------------------------------------------------------------------
(* Structured-response extractor *)

DiagnosticChars == 200

IsWs(t) == t \in {"sp", "nl"}

RECURSIVE TrimStart(_)
TrimStart(s) == IF s # <<>> /\ IsWs(Head(s)) THEN TrimStart(Tail(s)) ELSE s

RECURSIVE TrimEnd(_)
TrimEnd(s) ==
    IF s # <<>> /\ IsWs(s[Len(s)]) THEN TrimEnd(SubSeq(s, 1, Len(s) - 1)) ELSE s

\* str::trim
Trim(s) == TrimEnd(TrimStart(s))

\* Replace every line break by a blank, then trim.  A line break inside a
\* string value ("kvnl") becomes a blank inside it, which is valid JSON.
sanitize_line(s) ==
    Trim([i \in 1..Len(s) |->
            IF s[i] = "nl" THEN "sp" ELSE IF s[i] = "kvnl" THEN "kv" ELSE s[i]])

NoObject == [ok |-> FALSE, members |-> 0]

\* The members of an object whose opening brace was consumed.
RECURSIVE ParseMembers(_, _)
ParseMembers(s, n) ==
    IF s = <<>> THEN NoObject
    ELSE IF IsWs(Head(s)) THEN ParseMembers(Tail(s), n)
    ELSE IF Head(s) = "kv" THEN ParseMembers(Tail(s), n + 1)
    ELSE IF Head(s) = "}" THEN [ok |-> TRUE, members |-> n]
    ELSE NoObject

\* Deserializes the first JSON value of the text (what follows it is not
\* looked at) and keeps it only if it is an object.
parse_json_object_segment(s) ==
    LET t == TrimStart(s)
    IN  IF t # <<>> /\ Head(t) = "{" THEN ParseMembers(Tail(t), 0) ELSE NoObject

StartsWith(s, p) == Len(s) >= Len(p) /\ SubSeq(s, 1, Len(p)) = p

\* str::split_once: the index of the first occurrence of p in s, 0 if none.
RECURSIVE FindFrom(_, _, _)
FindFrom(s, p, i) ==
    IF i + Len(p) - 1 > Len(s) THEN 0
    ELSE IF SubSeq(s, i, i + Len(p) - 1) = p THEN i
    ELSE FindFrom(s, p, i + 1)

\* The interior between the opening fence `open` and the next closing
\* fence, trimmed; the text itself if either is missing.
FenceInterior(raw, open) ==
    LET i == FindFrom(raw, open, 1)
    IN  IF i = 0 THEN raw
        ELSE LET rest == SubSeq(raw, i + Len(open), Len(raw))
                 j    == FindFrom(rest, <<"fence">>, 1)
             IN  IF j = 0 THEN raw ELSE Trim(SubSeq(rest, 1, j - 1))

Unfenced(raw) ==
    IF StartsWith(raw, <<"fence", "json">>) THEN FenceInterior(raw, <<"fence", "json">>)
    ELSE IF StartsWith(raw, <<"fence">>) THEN FenceInterior(raw, <<"fence">>)
    ELSE raw

\* The last suffix of raw starting at a "{" that parses as an object.
RECURSIVE M_ScanBraces(_, _)
M_ScanBraces(raw, idx) ==
    IF idx > Len(raw) THEN NoObject
    ELSE IF M_ScanBraces(raw, idx + 1).ok THEN M_ScanBraces(raw, idx + 1)
    ELSE IF raw[idx] = "{" THEN parse_json_object_segment(SubSeq(raw, idx, Len(raw)))
    ELSE NoObject

\* The first suffix of raw starting at a "{" that parses as an object.
RECURSIVE ScanBraces(_, _)
ScanBraces(raw, idx) ==
    IF idx > Len(raw) THEN NoObject
    ELSE IF raw[idx] = "{" /\ parse_json_object_segment(SubSeq(raw, idx, Len(raw))).ok
         THEN parse_json_object_segment(SubSeq(raw, idx, Len(raw)))
    ELSE ScanBraces(raw, idx + 1)

ExtractOk(v)        == [ok |-> TRUE, value |-> v, err |-> [msg |-> "", head |-> <<>>]]
ExtractErr(m, head) == [ok |-> FALSE, value |-> NoObject, err |-> [msg |-> m, head |-> head]]

parse_json_object_from_text(text) ==
    LET raw0 == Trim(text)
        raw  == Unfenced(raw0)
    IN  IF raw0 = <<>> THEN ExtractErr("Empty Gemini response", <<>>)
        ELSE IF parse_json_object_segment(raw0).ok
             THEN ExtractOk(parse_json_object_segment(raw0))
        ELSE IF parse_json_object_segment(raw).ok
             THEN ExtractOk(parse_json_object_segment(raw))
        ELSE IF parse_json_object_segment(sanitize_line(raw)).ok
             THEN ExtractOk(parse_json_object_segment(sanitize_line(raw)))
        ELSE IF ScanBraces(raw, 1).ok
             THEN ExtractOk(ScanBraces(raw, 1))
        ELSE ExtractErr("Invalid JSON from Gemini", Take(raw, DiagnosticChars))

----------------------------------------------------------------------------
(* Completion client: gemini_generate_json *)

\* The text of a decoded response body: the top-level "text" if it is not
\* blank, else the joined texts of the first candidate's parts.
gemini_response_text(body) ==
    IF Trim(body.text) # <<>> THEN Trim(body.text) ELSE Trim(Concat(body.parts))

Body(text, parts) == [text |-> text, parts |-> parts]

\* What the completion service may answer to one request.
GeminiBodies ==
    { Body(<<"{", "kv", "}">>, <<>>),
      Body(<<>>, << <<"x", "sp">>, <<"{", "}", "sp", "x">> >>),
      Body(<<"fence", "json", "nl", "{", "kv", "}", "nl", "fence">>, <<>>),
      Body(<<"{", "kvnl", "}">>, <<>>),
      Body(<<"x", "sp", "x">>, <<>>),
      Body(<<"[", "kv", "]">>, <<>>),
      Body(<<"sp">>, << <<"nl">> >>),
      Body(<<"{", "kv">>, <<>>) }

GeminiResponses ==
    {[kind |-> k, body |-> Body(<<>>, <<>>)] : k \in {"transport", "status", "body"}}
      \cup {[kind |-> "ok", body |-> b] : b \in GeminiBodies}

NoError == [msg |-> "", head |-> <<>>]

GOk(v)  == [ok |-> TRUE, value |-> v, kind |-> "", cause |-> NoError]
GErr(k, cause) == [ok |-> FALSE, value |-> NoObject, kind |-> k, cause |-> cause]
GNone == [ok |-> FALSE, value |-> NoObject, kind |-> "pending", cause |-> NoError]

\* The three `?` of the request: transport failure, non-2xx status, and a
\* response body that is not JSON.
HttpErrorKind(k) ==
    CASE k = "transport" -> "Gemini request failed"
      [] k = "status"    -> "Gemini API returned error"
      [] k = "body"      -> "Gemini response parse failed"

MaxAttempts == 2

\* The call sites of gemini_generate_json.
Prompts == {"analysis", "selection", "needs_cab", "cab_selection", "model_filter"}

GeminiInit ==
    /\ g_pc = "idle"
    /\ g_prompt = ""
    /\ attempt = 0
    /\ g_sent = <<>>
    /\ g_recv = <<>>
    /\ last_error = NoError
    /\ g_result = GNone

\* Entry of gemini_generate_json.
GeminiBegin(prompt) ==
    /\ g_pc' = "attempt"
    /\ g_prompt' = prompt
    /\ attempt' = 0
    /\ g_sent' = <<>>
    /\ g_recv' = <<>>
    /\ last_error' = NoError
    /\ g_result' = GNone

\* `.send().await?.error_for_status()?.json().await?`: the request failed.
M_IsHttpFailure(resp) == resp.kind \in {"transport", "body"}

IsHttpFailure(resp) == resp.kind # "ok"

\* `for attempt in 0..2`: another iteration follows iteration a.
M_MoreAttempts(a) == a + 1 < MaxAttempts + 1

\* A loop that goes on for as long as the response is invalid.
M_RetryWhileInvalid(a) == TRUE

MoreAttempts(a) == a + 1 < MaxAttempts

\* One iteration of the loop: the request, the response, the extraction; the
\* return after the loop when this was the last iteration.
GeminiAttemptWith(resp) ==
    /\ g_pc = "attempt"
    /\ g_sent' = Append(g_sent, [prompt |-> g_prompt, corrective |-> attempt # 0])
    /\ g_recv' = Append(g_recv, resp)
    /\ UNCHANGED g_prompt
    /\ IF IsHttpFailure(resp)
       THEN /\ g_result' = GErr(HttpErrorKind(resp.kind), NoError)
            /\ g_pc' = "done"
            /\ UNCHANGED <<attempt, last_error>>
       ELSE LET ex == parse_json_object_from_text(gemini_response_text(resp.body))
            IN  IF ex.ok
                THEN /\ g_result' = GOk(ex.value)
                     /\ g_pc' = "done"
                     /\ UNCHANGED <<attempt, last_error>>
                ELSE /\ last_error' = ex.err
                     /\ attempt' = attempt + 1
                     /\ IF MoreAttempts(attempt)
                        THEN /\ g_pc' = "attempt"
                             /\ UNCHANGED g_result
                        ELSE /\ g_pc' = "done"
                             /\ g_result' =
                                  GErr("Failed to get valid JSON from Gemini", ex.err)

GeminiAttempt == \E resp \in GeminiResponses : GeminiAttemptWith(resp)

\* A caller invokes the completion client.
GeminiCall == \E p \in Prompts : g_pc = "idle" /\ GeminiBegin(p)

----------------------------------------------------------------------------
(* Tones.  The text of a tone (title, line break, description) is the set   *)
(* of the keyword literals that occur in it, lower-cased.                   *)

Tone(id, gear, text, dl) ==
    [id |-> id, gear |-> gear, text |-> text, downloads_count |-> dl,
     platform |-> IF gear = "ir" THEN "ir" ELSE "nam"]

tone_downloads(tone) == tone.downloads_count

BoostKeywords ==
    {"boost", "boosted", "overdrive", "od ", " od", "tubescreamer", "tube screamer",
     "ts808", "ts-808", "ts9", "ts-9", "sd1", "sd-1", "klon", "treble booster",
     "rangemaster"}

PedalKeywords ==
    {"preamp", "boost", "overdrive", "tubescreamer", "tube screamer", "ts808",
     "ts-808", "ts9", "ts-9", "sd-1", "sd1", "klon"}

text_contains_boost(text) == text \cap BoostKeywords # {}

tone_contains_boost(tone) == tone.gear = "amp" /\ text_contains_boost(tone.text)

tone_is_preamp_or_boost_pedal(tone) ==
    tone.gear = "pedal" /\ tone.text \cap PedalKeywords # {}

----------------------------------------------------------------------------
(* Selection engine.  Indices are zero-based, as in the source: index i     *)
(* names ts[i + 1].                                                         *)

At(ts, i) == ts[i + 1]

\* Where a stable sort by descending downloads puts index i after `sorted`.
InsertByDownloads(ts, sorted, i) ==
    LET k == Cardinality({j \in 1..Len(sorted) :
                 tone_downloads(At(ts, sorted[j])) >= tone_downloads(At(ts, i))})
    IN  SubSeq(sorted, 1, k) \o <<i>> \o SubSeq(sorted, k + 1, Len(sorted))

\* (0..n-1) under `sort_by_key(|i| -tone_downloads(..))`, a stable sort.
RECURSIVE SortedIndices(_, _)
SortedIndices(ts, n) ==
    IF n = 0 THEN <<>>
    ELSE InsertByDownloads(ts, SortedIndices(ts, n - 1), n - 1)

SortByDownloads(ts) ==
    LET order == SortedIndices(ts, Len(ts))
    IN  [k \in 1..Len(ts) |-> At(ts, order[k])]

\* The indices below the length, repeated ones kept.
RECURSIVE M_UniqueInRange(_, _, _)
M_UniqueInRange(idxs, n, seen) ==
    IF idxs = <<>> THEN <<>>
    ELSE IF Head(idxs) < n
         THEN <<Head(idxs)>> \o M_UniqueInRange(Tail(idxs), n, seen)
    ELSE M_UniqueInRange(Tail(idxs), n, seen)

\* Indices below the length, each once, in first-seen order.
RECURSIVE UniqueInRange(_, _, _)
UniqueInRange(idxs, n, seen) ==
    IF idxs = <<>> THEN <<>>
    ELSE IF Head(idxs) < n /\ Head(idxs) \notin seen
         THEN <<Head(idxs)>> \o UniqueInRange(Tail(idxs), n, seen \cup {Head(idxs)})
    ELSE UniqueInRange(Tail(idxs), n, seen)

\* A backfill that appends nothing.
M_Backfill(ts, unique, rest, amp_has_boost, max) == unique

\* The backfill loop over all_indices.
RECURSIVE Backfill(_, _, _, _, _)
Backfill(ts, unique, rest, amp_has_boost, max) ==
    IF rest = <<>> THEN unique
    ELSE LET idx == Head(rest)
         IN  IF idx \in Range(unique)
                THEN Backfill(ts, unique, Tail(rest), amp_has_boost, max)
             ELSE IF amp_has_boost /\ tone_is_preamp_or_boost_pedal(At(ts, idx))
                THEN Backfill(ts, unique, Tail(rest), amp_has_boost, max)
             ELSE IF Len(unique) + 1 >= max
                THEN Append(unique, idx)
             ELSE Backfill(ts, Append(unique, idx), Tail(rest), amp_has_boost, max)

KeepIndex(ts, amp_has_boost, i) ==
    ~(amp_has_boost /\ tone_is_preamp_or_boost_pedal(At(ts, i)))

postprocess_selected_indices(ts, selected_indices, max) ==
    LET unique0       == UniqueInRange(selected_indices, Len(ts), {})
        amp_has_boost == \E k \in 1..Len(unique0) : tone_contains_boost(At(ts, unique0[k]))
        unique        == SelectSeq(unique0, LAMBDA i : KeepIndex(ts, amp_has_boost, i))
    IN  IF Len(unique) >= max THEN Take(unique, max)
        ELSE Backfill(ts, unique, SortedIndices(ts, Len(ts)), amp_has_boost, max)

TopCandidates == 15

\* Candidates left in the order of the pool.
M_Candidates(ts) == Take(ts, TopCandidates)

\* `candidates`: the pool by descending downloads, truncated.
Candidates(ts) == Take(SortByDownloads(ts), TopCandidates)

\* The integers of "selected_indices" that are not negative.
RawIndices(given) == SelectSeq(given, LAMBDA n : n >= 0)

\* What select_best_tones returns for the pool ts, given the outcome of its
\* completion call.
select_best_tones(ts, max, completion) ==
    IF ts = <<>> THEN <<>>
    ELSE LET candidates == Candidates(ts)
         IN  IF ~completion.ok THEN Take(candidates, max)
             ELSE LET indices == postprocess_selected_indices(
                                     candidates, RawIndices(completion.indices), max)
                  IN  [k \in 1..Len(indices) |-> At(candidates, indices[k])]

CompletionFailed == [ok |-> FALSE, indices |-> <<>>]
CompletionGave(idxs) == [ok |-> TRUE, indices |-> idxs]

SelectInit ==
    /\ s_pc = "idle"
    /\ tones = <<>>
    /\ max_selections = 0
    /\ s_completion = CompletionFailed
    /\ selected_tones = <<>>

\* select_best_tones runs from its call to its return.
SelectBestTones ==
    /\ s_pc = "called"
    /\ selected_tones' = select_best_tones(tones, max_selections, s_completion)
    /\ s_pc' = "done"
    /\ UNCHANGED <<tones, max_selections, s_completion>>

----------------------------------------------------------------------------
(* Pool builder: build_gear_pool and build_tone_pool.  A search result is   *)
(* the list of the tones' identifiers; NoId stands for a tone without one.  *)

NoId == 0

PoolThreshold == 10

PageSize == 25

tone_id(tone) == tone.id

\* The catalog entry with the identifier id.
CatalogTone(id) ==
    CASE id = 1  -> Tone(1, "amp", {"tubescreamer", "full rig"}, 19)
      [] id = 2  -> Tone(2, "amp", {"amp head"}, 18)
      [] OTHER   -> Tone(id, IF id < 11 THEN "amp" ELSE "ir", {}, 20 - id)

Ids(ts) == {tone_id(ts[k]) : k \in 1..Len(ts)}

\* `seen_ids.insert(id)` that always succeeds.
M_IsNew(pool, id) == TRUE

\* `seen_ids.insert(id)`: the identifier was not seen by this call.
IsNew(pool, id) == id \notin Ids(pool)

\* `for tone in result.iter()`: the tones with an unseen identifier join the
\* pool.
RECURSIVE AddTones(_, _)
AddTones(pool, result) ==
    IF result = <<>> THEN pool
    ELSE IF Head(result) # NoId /\ IsNew(pool, Head(result))
         THEN AddTones(Append(pool, CatalogTone(Head(result))), Tail(result))
    ELSE AddTones(pool, Tail(result))

\* The fallback loop breaks before every query, not only after one.
M_FallbackPc(pool, fallback, j, cap) ==
    IF j > Len(fallback) \/ (j > 1 /\ Len(pool) >= cap) THEN "done" ELSE "fallback"

\* Head of the fallback loop: the next query j, unless the queries are
\* exhausted or the pool reached the cap.
FallbackPc(pool, fallback, j, cap) ==
    IF j > Len(fallback) \/ Len(pool) >= cap THEN "done" ELSE "fallback"

\* A fallback phase entered whatever the size of the pool.
M_AfterPrimary(fn, pool, fallback, cap) == FallbackPc(pool, fallback, 1, cap)

\* After the primary loop: `if all_tones.len() < 10` (build_tone_pool:
\* `&& !analysis.fallback_queries.is_empty()`).
AfterPrimary(fn, pool, fallback, cap) ==
    IF Len(pool) < PoolThreshold /\ (fn = "build_tone_pool" => fallback # <<>>)
    THEN FallbackPc(pool, fallback, 1, cap)
    ELSE "done"

\* Head of the primary loop.
PrimaryPc(fn, pool, primary, fallback, i, cap) ==
    IF i <= Len(primary) THEN "primary" ELSE AfterPrimary(fn, pool, fallback, cap)

PoolInit ==
    /\ p_pc = "idle"
    /\ p_fn = ""
    /\ primary_queries = <<>>
    /\ fallback_queries = <<>>
    /\ p_gear = ""
    /\ max_results_to_analyze = 0
    /\ p_next = 0
    /\ all_tones = <<>>
    /\ p_searches = <<>>

\* Entry of build_gear_pool / build_tone_pool, up to the first search.
PoolBegin(fn, primary, fallback, gear, cap) ==
    /\ p_fn' = fn
    /\ primary_queries' = primary
    /\ fallback_queries' = fallback
    /\ p_gear' = gear
    /\ max_results_to_analyze' = cap
    /\ p_next' = 1
    /\ all_tones' = <<>>
    /\ p_searches' = <<>>
    /\ p_pc' = PrimaryPc(fn, <<>>, primary, fallback, 1, cap)

Search(phase, query, result) ==
    [phase |-> phase, query |-> query, gear |-> p_gear, page_size |-> PageSize,
     ok |-> TRUE, result |-> result, before |-> Len(all_tones)]

FailedSearch(phase, query) ==
    [phase |-> phase, query |-> query, gear |-> p_gear, page_size |-> PageSize,
     ok |-> FALSE, result |-> <<>>, before |-> Len(all_tones)]

\* An iteration of either loop whose search fails: `?` returns the error.
PoolSearchFails ==
    /\ p_pc \in {"primary", "fallback"}
    /\ p_searches' = Append(p_searches,
          FailedSearch(p_pc, IF p_pc = "primary" THEN primary_queries[p_next]
                                                 ELSE fallback_queries[p_next]))
    /\ p_pc' = "failed"
    /\ UNCHANGED <<p_fn, primary_queries, fallback_queries, p_gear,
                   max_results_to_analyze, p_next, all_tones>>

\* One iteration of the primary loop: the search and the merge of its first
\* max_results_to_analyze results; then the head of the next loop.
PoolSearchPrimary(Results) ==
    /\ p_pc = "primary"
    /\ \E result \in Results :
        LET pool == AddTones(all_tones, Take(result, max_results_to_analyze))
        IN  /\ p_searches' = Append(p_searches,
                                    Search("primary", primary_queries[p_next], result))
            /\ all_tones' = pool
            /\ p_pc' = PrimaryPc(p_fn, pool, primary_queries, fallback_queries,
                                 p_next + 1, max_results_to_analyze)
            /\ p_next' = IF p_next + 1 <= Len(primary_queries) THEN p_next + 1 ELSE 1
    /\ UNCHANGED <<p_fn, primary_queries, fallback_queries, p_gear,
                   max_results_to_analyze>>

\* One iteration of the fallback loop.
PoolSearchFallback(Results) ==
    /\ p_pc = "fallback"
    /\ \E result \in Results :
        LET pool == AddTones(all_tones, Take(result, max_results_to_analyze))
        IN  /\ p_searches' = Append(p_searches,
                                    Search("fallback", fallback_queries[p_next], result))
            /\ all_tones' = pool
            /\ p_pc' = FallbackPc(pool, fallback_queries, p_next + 1,
                                  max_results_to_analyze)
            /\ p_next' = p_next + 1
    /\ UNCHANGED <<p_fn, primary_queries, fallback_queries, p_gear,
                   max_results_to_analyze>>

----------------------------------------------------------------------------
(* Rig assembler helpers *)

CabIncludedKeywords ==
    {"cab included", "with cab", "miked cab", "mic'd cab", "cab sim", "cabinet sim",
     "merged profile", "full rig"}

HeadOnlyKeywords ==
    {"head only", "no cab", "without cab", "preamp only", "amp head"}

\* The fallback with the head-only phrases looked for first.
M_fallback_amp_needs_cab(amp_tone) ==
    IF amp_tone.text \cap HeadOnlyKeywords # {} THEN TRUE
    ELSE IF amp_tone.text \cap CabIncludedKeywords # {} THEN FALSE
    ELSE TRUE

\* TRUE: a cab is needed.
fallback_amp_needs_cab(amp_tone) ==
    IF amp_tone.text \cap CabIncludedKeywords # {} THEN FALSE
    ELSE IF amp_tone.text \cap HeadOnlyKeywords # {} THEN TRUE
    ELSE TRUE

\* Queries are sequences of words; "sp" and "nl" are a blank and a line
\* break.  str::to_lowercase on a word.
Lower(w) == CASE w = "REQ" -> "req" [] w = "NO" -> "no" [] OTHER -> w

LowerAll(q) == [k \in 1..Len(q) |-> Lower(q[k])]

RECURSIVE DedupeLoop(_, _, _, _)
DedupeLoop(queries, max_items, out, seen) ==
    IF queries = <<>> THEN out
    ELSE LET normalized == sanitize_line(Head(queries))
             key        == LowerAll(normalized)
         IN  IF normalized = <<>>
             THEN DedupeLoop(Tail(queries), max_items, out, seen)
             ELSE LET out2 == IF key \in seen THEN out ELSE Append(out, normalized)
                  IN  IF Len(out2) >= max_items THEN out2
                      ELSE DedupeLoop(Tail(queries), max_items, out2, seen \cup {key})

dedupe_non_empty_queries(queries, max_items) == DedupeLoop(queries, max_items, <<>>, {})

\* The cab pool without the cabs of earlier presets, kept even when that
\* leaves it empty.
M_UnusedCabs(cabs, used) ==
    SelectSeq(cabs, LAMBDA t : tone_id(t) = NoId \/ tone_id(t) \notin used)

\* `filtered_cab_pool`, which replaces cab_pool only if it is not empty.
UnusedCabs(cabs, used) ==
    LET filtered == SelectSeq(cabs,
                        LAMBDA t : tone_id(t) = NoId \/ tone_id(t) \notin used)
    IN  IF filtered # <<>> THEN filtered ELSE cabs

----------------------------------------------------------------------------
(* Model filter and file names.  A name is a sequence of characters; "ctl"  *)
(* is a control character and "nam" the three letters of the extension.     *)

ReservedChars == {"<", ">", ":", "\"", "/", "\\", "|", "?", "*"}

\* The components of a path between its "/" separators.
RECURSIVE SplitSlash(_, _)
SplitSlash(name, cur) ==
    IF name = <<>> THEN <<cur>>
    ELSE IF Head(name) = "/" THEN <<cur>> \o SplitSlash(Tail(name), <<>>)
    ELSE SplitSlash(Tail(name), Append(cur, Head(name)))

\* Path::file_name: the last component, none if the path ends in "..".
FileName(name) ==
    LET comps == SelectSeq(SplitSlash(name, <<>>), LAMBDA c : c # <<>> /\ c # <<".">>)
    IN  IF comps = <<>> \/ comps[Len(comps)] = <<".", ".">> THEN name
        ELSE comps[Len(comps)]

RECURSIVE TrimMatchesStart(_)
TrimMatchesStart(q) ==
    IF q # <<>> /\ Head(q) \in {" ", "."} THEN TrimMatchesStart(Tail(q)) ELSE q

RECURSIVE TrimMatchesEnd(_)
TrimMatchesEnd(q) ==
    IF q # <<>> /\ q[Len(q)] \in {" ", "."}
    THEN TrimMatchesEnd(SubSeq(q, 1, Len(q) - 1)) ELSE q

\* A sanitizer without the placeholder name.
M_safe_filename(name) ==
    LET basename == FileName(name)
        out == [k \in 1..Len(basename) |->
                   IF basename[k] = "ctl" \/ basename[k] \in ReservedChars
                   THEN "_" ELSE basename[k]]
    IN  TrimMatchesEnd(TrimMatchesStart(out))

safe_filename(name) ==
    LET basename == FileName(name)
        out == [k \in 1..Len(basename) |->
                   IF basename[k] = "ctl" \/ basename[k] \in ReservedChars
                   THEN "_" ELSE basename[k]]
        trimmed == TrimMatchesEnd(TrimMatchesStart(out))
    IN  IF trimmed = <<>> THEN <<"m", "o", "d", "e", "l">> ELSE trimmed

\* Path::extension of a name without separators and without a leading dot.
HasExtension(basename) == "." \in Range(basename)

normalize_model_filename(name, platform) ==
    LET basename == safe_filename(name)
    IN  IF HasExtension(basename) THEN basename
        ELSE IF platform = "nam" THEN basename \o <<".", "nam">>
        ELSE basename

ModelFile(name, url) == [name |-> name, model_url |-> url]

ModelFilterLimit == 5

FallbackModels == 2

\* filter_models without `indices.truncate(5)`.
M_filter_models(models, completion) ==
    IF ~completion.ok THEN Take(models, FallbackModels)
    ELSE LET in_range == SelectSeq(RawIndices(completion.indices),
                                   LAMBDA i : i < Len(models))
             indices  == IF in_range = <<>> /\ models # <<>> THEN <<0>> ELSE in_range
         IN  [k \in 1..Len(indices) |-> At(models, indices[k])]

\* What filter_models returns for the model list, given the outcome of its
\* completion call.
filter_models(models, completion) ==
    IF ~completion.ok THEN Take(models, FallbackModels)
    ELSE LET in_range  == SelectSeq(RawIndices(completion.indices),
                                    LAMBDA i : i < Len(models))
             truncated == Take(in_range, ModelFilterLimit)
             indices   == IF truncated = <<>> /\ models # <<>> THEN <<0>> ELSE truncated
         IN  [k \in 1..Len(indices) |-> At(models, indices[k])]

FilterInit ==
    /\ f_pc = "idle"
    /\ f_models = <<>>
    /\ f_completion = CompletionFailed
    /\ f_selected = <<>>

\* filter_models from its completion call to its return.
FilterModels ==
    /\ f_pc = "called"
    /\ f_selected' = filter_models(f_models, f_completion)
    /\ f_pc' = "done"
    /\ UNCHANGED <<f_models, f_completion>>

----------------------------------------------------------------------------
(* Two runs in the download loop of download_models_for_tone_component for  *)
(* the same target path: every await of the iteration is a step, and the    *)
(* steps of the two runs interleave.                                        *)

Runs == {1, 2}

\* The chunks of the response body.
Chunks == 2

AbsentFile == [exists |-> FALSE, bytes |-> <<>>]

\* A file left by an earlier run: bytes of neither run.
EarlierFile == [exists |-> TRUE, bytes |-> [k \in 1..Chunks |-> 0]]

\* `file.write_all(&chunk)` through a handle at the offset pos - 1: the byte
\* is the writer's, and a write past the end fills the gap with zeros.
WriteAt(bytes, pos, w) ==
    IF pos <= Len(bytes)
    THEN [bytes EXCEPT ![pos] = w]
    ELSE [k \in 1..pos |-> IF k <= Len(bytes) THEN bytes[k] ELSE IF k = pos THEN w ELSE 0]

RaceInit ==
    /\ c_pc = [i \in Runs |-> "idle"]
    /\ c_file = AbsentFile
    /\ c_offset = [i \in Runs |-> 0]
    /\ c_items = [i \in Runs |-> "none"]

\* The record is pushed and the iteration ends.
Push(i, status) ==
    /\ c_items' = [c_items EXCEPT ![i] = status]
    /\ c_pc' = [c_pc EXCEPT ![i] = "done"]

\* A check that goes on to the download whatever it finds.
M_CheckExists(i) ==
    /\ c_pc[i] = "exists"
    /\ c_pc' = [c_pc EXCEPT ![i] = "send"]
    /\ UNCHANGED <<c_file, c_offset, c_items>>

\* `if target_path.exists() { .. "skipped_exists" ..; continue; }`
CheckExists(i) ==
    /\ c_pc[i] = "exists"
    /\ IF c_file.exists
          THEN Push(i, "skipped_exists")
          ELSE /\ c_pc' = [c_pc EXCEPT ![i] = "send"]
               /\ UNCHANGED c_items
    /\ UNCHANGED <<c_file, c_offset>>

\* `.send().await ..?.error_for_status()..?`
SendRequest(i) ==
    /\ c_pc[i] = "send"
    /\ \E ok \in BOOLEAN :
          IF ok
          THEN /\ c_pc' = [c_pc EXCEPT ![i] = "create"]
               /\ UNCHANGED c_items
          ELSE Push(i, "error")
    /\ UNCHANGED <<c_file, c_offset>>

\* `tokio::fs::File::create(output_path).await`: the file is created, or
\* truncated if it exists, and the handle starts at offset 0.
CreateFile(i) ==
    /\ c_pc[i] = "create"
    /\ \E ok \in BOOLEAN :
          IF ok
          THEN /\ c_pc' = [c_pc EXCEPT ![i] = "chunk"]
               /\ c_file' = [exists |-> TRUE, bytes |-> <<>>]
               /\ c_offset' = [c_offset EXCEPT ![i] = 0]
               /\ UNCHANGED c_items
          ELSE /\ Push(i, "error")
               /\ UNCHANGED <<c_file, c_offset>>

\* One turn of `while let Some(chunk) = response.chunk().await ..?`: a
\* chunk is written, or the body has ended and download_model returns Ok,
\* or the stream or the write fails and the file stays as it is.
WriteChunk(i) ==
    /\ c_pc[i] = "chunk"
    /\ \E ok \in BOOLEAN :
          IF ~ok
          THEN /\ Push(i, "error")
               /\ UNCHANGED <<c_file, c_offset>>
          ELSE IF c_offset[i] < Chunks
          THEN /\ c_file' = [c_file EXCEPT !.bytes = WriteAt(@, c_offset[i] + 1, i)]
               /\ c_offset' = [c_offset EXCEPT ![i] = @ + 1]
               /\ UNCHANGED <<c_pc, c_items>>
          ELSE /\ Push(i, "downloaded")
               /\ UNCHANGED <<c_file, c_offset>>

----------------------------------------------------------------------------
(* The run: run_download and run_download_inner, one action per network     *)
(* call or local step.                                                      *)

NoneU8 == -1

MinTones == 1

MaxTones == 5

MinResults == 5

MaxResults == 25

DefaultTones == 3

DefaultResults == 15

MaxTerms == 3

MaxSteps == 5

AmpQueryLimit == 6

CabQueryLimit == 8

Clamp(v, lo, hi) == IF v < lo THEN lo ELSE IF v > hi THEN hi ELSE v

\* The preset count without its lower limit.
M_EffectiveTones(v) == Clamp(IF v = NoneU8 THEN DefaultTones ELSE v, 0, MaxTones)

\* `payload.max_tones.unwrap_or(3).clamp(1, 5)`
EffectiveTones(v) == Clamp(IF v = NoneU8 THEN DefaultTones ELSE v, MinTones, MaxTones)

\* `payload.max_results.unwrap_or(15).clamp(5, 25)`
EffectiveResults(v) ==
    Clamp(IF v = NoneU8 THEN DefaultResults ELSE v, MinResults, MaxResults)

NoTone == Tone(NoId, "", {}, 0)

\* JSON values of a completion object: null (also an absent key), a
\* string, a number, or an array of such values.
JNull == [type |-> "null", text |-> <<>>, items |-> <<>>]
JNum == [type |-> "number", text |-> <<>>, items |-> <<>>]
JStr(t) == [type |-> "string", text |-> t, items |-> <<>>]
JArr(items) == [type |-> "array", text |-> <<>>, items |-> items]

\* `.and_then(Value::as_array)` with `filter_map(Value::as_str)`: the strings
\* of an array, nothing for any other value.
StringsOf(v) ==
    IF v.type # "array" THEN <<>>
    ELSE LET strings == SelectSeq(v.items, LAMBDA item : item.type = "string")
         IN  [k \in 1..Len(strings) |-> strings[k].text]

\* The terms of one list, without the cap.
M_CleanTerms(terms) ==
    SelectSeq([k \in 1..Len(terms) |-> sanitize_line(terms[k])], LAMBDA t : t # <<>>)

\* The terms of one list of the completion's answer: single-lined, the empty
\* ones dropped, at most three.
CleanTerms(terms) ==
    Take(SelectSeq([k \in 1..Len(terms) |-> sanitize_line(terms[k])],
                   LAMBDA t : t # <<>>),
         MaxTerms)

parse_explanation_lines(value, max_items) ==
    LET lines == StringsOf(value)
    IN  Take(SelectSeq([k \in 1..Len(lines) |-> sanitize_line(lines[k])],
                       LAMBDA line : line # <<>>),
             max_items)

\* `join(", ")`
RECURSIVE Join(_)
Join(ts) ==
    IF ts = <<>> THEN <<>>
    ELSE IF Len(ts) = 1 THEN ts[1]
    ELSE ts[1] \o <<",", "sp">> \o Join(Tail(ts))

\* The gear filter of a text: Some of the three names, else None ("").
GearOf(g) ==
    CASE g = <<"amp">>   -> "amp"
      [] g = <<"ir">>    -> "ir"
      [] g = <<"pedal">> -> "pedal"
      [] OTHER           -> ""

NoAnalysis ==
    [search_queries |-> <<>>, gear_type |-> "", description |-> <<>>,
     fallback_queries |-> <<>>, explanation_steps |-> <<>>]

\* A fallback object that searches amps only.
M_FallbackAnalysisRaw(request_text) ==
    [search_queries |-> JArr(<<JStr(request_text)>>),
     gear_type |-> JStr(<<"amp">>),
     description |-> JNull,
     fallback_queries |-> JArr(<<>>),
     explanation_steps |-> JNull]

\* The object analyze_tone_request works on when the completion call failed.
FallbackAnalysisRaw(request_text) ==
    [search_queries |-> JArr(<<JStr(sanitize_line(request_text))>>),
     gear_type |-> JNull,
     description |-> JStr(<<"Fallback analysis used">>),
     fallback_queries |-> JArr(<<>>),
     explanation_steps |-> JArr(<<JStr(<<"Gemini did not return valid JSON">>),
                                  JStr(<<"Used the original user request">>),
                                  JStr(<<"Continued with neutral gear filter">>)>>)]

\* The Analysis built from the object `raw`.
analyze_tone_request(raw, request_text) ==
    LET search == CleanTerms(StringsOf(raw.search_queries))
        normalized_search == IF search = <<>> THEN <<sanitize_line(request_text)>>
                             ELSE search
        gear == IF raw.gear_type.type = "string"
                THEN GearOf(sanitize_line(raw.gear_type.text)) ELSE ""
        given == IF raw.description.type = "string"
                 THEN sanitize_line(raw.description.text) ELSE <<>>
        steps == parse_explanation_lines(raw.explanation_steps, MaxSteps)
        generated ==
            << <<"Target tone request:", "sp">> \o sanitize_line(request_text),
               <<"Primary search queries:", "sp">> \o Join(normalized_search) >>
            \o IF gear # "" THEN << <<"Focus on gear type:", "sp", gear>> >> ELSE <<>>
    IN  [search_queries |-> normalized_search,
         gear_type |-> gear,
         description |-> IF given # <<>> THEN given
                         ELSE <<"Request analysis completed">>,
         fallback_queries |-> CleanTerms(StringsOf(raw.fallback_queries)),
         explanation_steps |-> IF steps = <<>> THEN generated ELSE steps]

AFailed == [ok |-> FALSE, value |-> NoAnalysis]
AGave(raw) == [ok |-> TRUE, value |-> raw]

AnalyzeInit ==
    /\ a_pc = "idle"
    /\ user_request = <<>>
    /\ a_completion = AFailed
    /\ a_analysis = NoAnalysis

\* analyze_tone_request from its completion call to its return.
AnalyzeToneRequest ==
    /\ a_pc = "called"
    /\ a_analysis' = analyze_tone_request(
                        IF a_completion.ok THEN a_completion.value
                        ELSE FallbackAnalysisRaw(user_request),
                        user_request)
    /\ a_pc' = "done"
    /\ UNCHANGED <<user_request, a_completion>>

\* The title of a tone, as words.
Title(tone) ==
    CASE tone_id(tone) = 1 -> <<"plexi">>
      [] tone_id(tone) = 2 -> <<"recto">>
      [] OTHER             -> <<"tone">>

Request == sanitize_line(payload.request)

AmpPrimaryQueries(an) ==
    dedupe_non_empty_queries(Append(an.search_queries, Request), AmpQueryLimit)

AmpFallbackQueries(an) ==
    dedupe_non_empty_queries(
        Append(an.fallback_queries, Request \o <<"sp", "amp">>), AmpQueryLimit)

CabPrimaryQueries(an, amp_tone) ==
    dedupe_non_empty_queries(
        << Request \o <<"sp", "cab", "sp", "ir">>,
           Title(amp_tone) \o <<"sp", "ir">>,
           Title(amp_tone) \o <<"sp", "cab">> >> \o an.search_queries,
        CabQueryLimit)

CabFallbackQueries(an) ==
    dedupe_non_empty_queries(
        an.fallback_queries
          \o << Request \o <<"sp", "guitar", "sp", "cabinet">>,
                <<"guitar", "sp", "cab", "sp", "ir">> >>,
        CabQueryLimit)

\* The models the catalog lists for a tone.
CatalogModels(id) ==
    CASE id = 1  -> << ModelFile(<<"a">>, "u1"), ModelFile(<<"d", "/", "a">>, "u2") >>
      [] id = 2  -> << ModelFile(<<"b">>, "u3"), ModelFile(<<"c">>, "") >>
      [] id = 11 -> << ModelFile(<<"c", ".", "w">>, "u4") >>
      [] OTHER   -> <<>>

\* Files.  A path names the preset directory, the component directory (role
\* and tone) and the file in it.
Path(preset, role, tone, file) ==
    [preset |-> preset, role |-> role, tone |-> tone, file |-> file]

RigPath(preset) == Path(preset, "", NoId, <<"rig.json">>)

InfoPath(preset, role, tone) == Path(preset, role, tone_id(tone), <<"info.json">>)

TargetPath(preset, role, tone, model) ==
    Path(preset, role, tone_id(tone),
         normalize_model_filename(model.name, tone.platform))

Content(origin, whole) == [origin |-> origin, whole |-> whole]

NoFiles == [q \in {} |-> Content("", FALSE)]

\* A write that leaves no file behind.
M_WriteFile(files, path, content) == files

WriteFile(files, path, content) ==
    [q \in DOMAIN files \cup {path} |-> IF q = path THEN content ELSE files[q]]

Exists(files, path) == path \in DOMAIN files

Record(preset, role, tone, model, status) ==
    [preset |-> preset, component_role |-> role, tone_id |-> tone_id(tone),
     model_name |-> normalize_model_filename(model.name, tone.platform),
     status |-> status, path |-> TargetPath(preset, role, tone, model)]

RigInfo(preset, amp_tone, cab_tone, needs) ==
    [preset |-> preset, amp |-> tone_id(amp_tone), cab |-> tone_id(cab_tone),
     needs_cab |-> needs]

\* The keys of the object run_download returns.
SuccessKeys ==
    {"ok", "request", "analysis", "gemini_model", "pool_size", "selected_tones",
     "rig_presets", "downloaded_count", "model_items", "ai_steps", "output_dir", "logs"}

ErrorKeys == {"ok", "error"}

RunOk == [ok |-> TRUE, error |-> "", keys |-> SuccessKeys]
\* An error object that also carries the presets and the records.
M_RunErr(e) ==
    [ok |-> FALSE, error |-> e, keys |-> ErrorKeys \cup {"rig_presets", "model_items"}]

RunErr(e) == [ok |-> FALSE, error |-> e, keys |-> ErrorKeys]
RunPending == [ok |-> FALSE, error |-> "pending", keys |-> {}]

\* Option<String>
None == [some |-> FALSE, text |-> <<>>]
Some(t) == [some |-> TRUE, text |-> t]

NoKeys == [env_tone |-> None, env_gemini |-> None, file_tone |-> None,
           file_gemini |-> None]

\* A key of the payload counts if it is not blank.
FromPayload(key) ==
    IF key.some /\ Trim(key.text) # <<>> THEN Some(Trim(key.text)) ELSE None

OrElse(a, b) == IF a.some THEN a ELSE b

\* resolve_keys that asks for the catalog key only.
M_resolve_keys(p, env) ==
    LET tone == OrElse(OrElse(FromPayload(p.tone3000_api_key), env.env_tone),
                       env.file_tone)
    IN  [ok |-> tone.some]

\* Each key from the payload, else the environment variable, else keys.txt;
\* Err unless both are found.
resolve_keys(p, env) ==
    LET tone   == OrElse(OrElse(FromPayload(p.tone3000_api_key), env.env_tone),
                         env.file_tone)
        gemini == OrElse(OrElse(FromPayload(p.gemini_api_key), env.env_gemini),
                         env.file_gemini)
    IN  [ok |-> tone.some /\ gemini.some]

GeminiErrorKinds ==
    {"Gemini request failed", "Gemini API returned error",
     "Gemini response parse failed", "Failed to get valid JSON from Gemini"}

\* What the collaborators answer within a run.
RunGeminiResponses ==
    { [kind |-> "status", body |-> Body(<<>>, <<>>)],
      [kind |-> "ok", body |-> Body(<<"{", "kv", "}">>, <<>>)],
      [kind |-> "ok", body |-> Body(<<"x">>, <<>>)] }

RunAnalysisPayloads ==
    { [search_queries |-> JArr(<<JStr(<<"metal">>), JStr(<<"REQ">>), JStr(<<"nl">>)>>),
       gear_type |-> JStr(<<"amp">>),
       description |-> JNull,
       fallback_queries |-> JArr(<<JStr(<<"crunch", "nl">>)>>),
       explanation_steps |-> JNull] }

RunAnswers(gear) ==
    CASE gear = "amp" -> { <<>>, <<1>>, <<2, 1>> }
      [] gear = "ir"  -> { <<>>, <<11>>, <<12, 11>> }
      [] OTHER        -> { <<>>, <<11>>, <<11, 2>> }

RunIndexPayloads == { <<>>, <<1>>, <<0, 0>> }

RunCabIndexPayloads == { -1, 1 }

DownloadOutcomes == {"ok", "request_failed", "create_failed", "stream_failed"}

\* What download_model returns: "" for Ok, else the Err.
DownloadErr(outcome) ==
    CASE outcome = "ok"             -> ""
      [] outcome = "request_failed" -> "Model download request failed"
      [] outcome = "create_failed"  -> "Failed to create output file"
      [] outcome = "stream_failed"  -> "Failed while streaming model file"

RunTones == 2

cfgv == <<payload, key_env, max_tones, max_results, outage>>
selv == <<analysis, amp_pool, selected_amps>>
rigv == <<index, needs_cab, cab_pool, selected_cab, used_cab_ids, rig_presets>>
dlv  == <<d_role, all_models, selected_models, d_next, model_items,
          downloaded_count, fs, requested, download_error>>

RunInit ==
    /\ r_pc = "idle"
    /\ payload = [request |-> <<>>, tone3000_api_key |-> None, gemini_api_key |-> None,
                  max_tones |-> NoneU8, max_results |-> NoneU8]
    /\ key_env = NoKeys
    /\ max_tones = 0
    /\ max_results = 0
    /\ analysis = NoAnalysis
    /\ amp_pool = <<>>
    /\ selected_amps = <<>>
    /\ index = 0
    /\ needs_cab = FALSE
    /\ cab_pool = <<>>
    /\ selected_cab = NoTone
    /\ used_cab_ids = {}
    /\ rig_presets = <<>>
    /\ d_role = ""
    /\ all_models = <<>>
    /\ selected_models = <<>>
    /\ d_next = 0
    /\ model_items = <<>>
    /\ downloaded_count = 0
    /\ fs = NoFiles
    /\ requested = <<>>
    /\ download_error = ""
    /\ catalog_answer = <<>>
    /\ outage = FALSE
    /\ r_result = RunPending

GeminiReset ==
    /\ g_pc' = "idle"
    /\ g_prompt' = ""
    /\ attempt' = 0
    /\ g_sent' = <<>>
    /\ g_recv' = <<>>
    /\ last_error' = NoError
    /\ g_result' = GNone

PoolReset ==
    /\ p_pc' = "idle"
    /\ p_fn' = ""
    /\ primary_queries' = <<>>
    /\ fallback_queries' = <<>>
    /\ p_gear' = ""
    /\ max_results_to_analyze' = 0
    /\ p_next' = 0
    /\ all_tones' = <<>>
    /\ p_searches' = <<>>

\* An error object that also carries the download records.
M_Abort(e) ==
    /\ r_pc' = "done"
    /\ r_result' = [RunErr(e) EXCEPT !.keys = ErrorKeys \cup {"model_items"}]
    /\ GeminiReset
    /\ PoolReset
    /\ UNCHANGED <<cfgv, selv, rigv, dlv, catalog_answer>>

\* The run returns the error e: `?` in run_download_inner, reported by
\* run_download as ok=false.
Abort(e) ==
    /\ r_pc' = "done"
    /\ r_result' = RunErr(e)
    /\ GeminiReset
    /\ PoolReset
    /\ UNCHANGED <<cfgv, selv, rigv, dlv, catalog_answer>>

\* A call site that returns the error of the completion client.
M_CatchesCompletionError(site) == site # "needs_cab"

\* Every call site matches on the Err of gemini_generate_json and goes on
\* with its fallback.
CatchesCompletionError(site) == TRUE

Uncaught(site) == ~g_result.ok /\ ~CatchesCompletionError(site)

\* run_download up to the authentication request.
RunStart ==
    /\ r_pc = "start"
    /\ \/ /\ Trim(payload.request) = <<>>
          /\ Abort("Request text is required.")
       \/ /\ Trim(payload.request) # <<>>
          /\ ~resolve_keys(payload, key_env).ok
          /\ Abort("Missing API keys")
       \/ /\ Trim(payload.request) # <<>>
          /\ resolve_keys(payload, key_env).ok
          /\ Abort("Failed to create output directory")
       \/ /\ Trim(payload.request) # <<>>
          /\ resolve_keys(payload, key_env).ok
          /\ r_pc' = "auth"
          /\ max_tones' = EffectiveTones(payload.max_tones)
          /\ max_results' = EffectiveResults(payload.max_results)
          /\ UNCHANGED <<payload, key_env, outage, selv, rigv, dlv, catalog_answer, r_result,
                         gvars, pvars>>

\* Tone3000Session::authenticate, then the entry of analyze_tone_request.
Authenticate ==
    /\ r_pc = "auth"
    /\ \/ Abort("Tone3000 auth failed")
       \/ /\ r_pc' = "analysis"
          /\ GeminiBegin("analysis")
          /\ UNCHANGED <<cfgv, selv, rigv, dlv, catalog_answer, r_result, pvars>>

\* analyze_tone_request after its completion call, then build_gear_pool for
\* amps up to its first search.
AnalysisDone ==
    /\ r_pc = "analysis"
    /\ g_pc = "done"
    /\ \/ /\ Uncaught("analysis")
          /\ Abort(g_result.kind)
       \/ /\ ~Uncaught("analysis")
          /\ \E raw \in IF g_result.ok THEN RunAnalysisPayloads
                        ELSE {FallbackAnalysisRaw(Request)} :
              LET an == analyze_tone_request(raw, Request)
              IN  /\ analysis' = an
                  /\ PoolBegin("build_gear_pool", AmpPrimaryQueries(an),
                               AmpFallbackQueries(an), "amp", max_results)
          /\ catalog_answer' \in RunAnswers("amp")
          /\ r_pc' = "amp_pool"
          /\ GeminiReset
          /\ UNCHANGED <<cfgv, amp_pool, selected_amps, rigv, dlv, r_result>>

\* Entry of select_best_tones on a non-empty amp pool.
BeginSelection(pool) ==
    /\ amp_pool' = pool
    /\ r_pc' = "select"
    /\ GeminiBegin("selection")
    /\ PoolReset

\* The strict amp pool is built: the relaxed search if it is empty, else the
\* selection.
AmpPoolDone ==
    /\ r_pc = "amp_pool"
    /\ \/ /\ p_pc = "failed"
          /\ Abort("Tone search failed")
       \/ /\ p_pc = "done"
          /\ all_tones = <<>>
          /\ PoolBegin("build_tone_pool", analysis.search_queries,
                       analysis.fallback_queries, analysis.gear_type, max_results)
          /\ catalog_answer' \in RunAnswers("")
          /\ r_pc' = "relaxed_pool"
          /\ UNCHANGED <<cfgv, selv, rigv, dlv, r_result, gvars>>
       \/ /\ p_pc = "done"
          /\ all_tones # <<>>
          /\ BeginSelection(all_tones)
          /\ UNCHANGED <<cfgv, analysis, selected_amps, rigv, dlv, catalog_answer,
                         r_result>>

\* The relaxed pool as it is, whatever the gear of its tones.
M_AmpsOf(pool) == pool

\* `.filter(|tone| value_as_string(tone.get("gear")).eq_ignore_ascii_case("amp"))`
AmpsOf(pool) == SelectSeq(pool, LAMBDA t : t.gear = "amp")

\* The relaxed pool is built: its amps are the pool; without any the run
\* returns an empty success.
RelaxedPoolDone ==
    /\ r_pc = "relaxed_pool"
    /\ \/ /\ p_pc = "failed"
          /\ Abort("Tone search failed")
       \/ /\ p_pc = "done"
          /\ LET amps == AmpsOf(all_tones)
             IN  \/ /\ amps = <<>>
                    /\ r_pc' = "done"
                    /\ r_result' = RunOk
                    /\ PoolReset
                    /\ UNCHANGED <<cfgv, selv, rigv, dlv, catalog_answer, gvars>>
                 \/ /\ amps # <<>>
                    /\ BeginSelection(amps)
                    /\ UNCHANGED <<cfgv, analysis, selected_amps, rigv, dlv,
                                   catalog_answer, r_result>>

\* A loop that writes the preset without judging whether its amp needs a cab.
M_PresetLoop(amps, i) ==
    /\ r_pc' = IF i < Len(amps) THEN "preset" ELSE "done"
    /\ GeminiReset
    /\ r_result' = IF i < Len(amps) THEN r_result ELSE RunOk

\* Head of the preset loop for the preset `i` (zero-based): the entry of
\* assess_amp_needs_cab, or the end of the run after the last preset.
PresetLoop(amps, i) ==
    IF i < Len(amps)
    THEN /\ r_pc' = "needs_cab"
         /\ GeminiBegin("needs_cab")
         /\ r_result' = r_result
    ELSE /\ r_pc' = "done"
         /\ GeminiReset
         /\ r_result' = RunOk

\* select_best_tones after its completion call, then the first preset.
SelectDone ==
    /\ r_pc = "select"
    /\ g_pc = "done"
    /\ \/ /\ Uncaught("selection")
          /\ Abort(g_result.kind)
       \/ /\ ~Uncaught("selection")
          /\ \E completion \in IF g_result.ok
                               THEN {CompletionGave(q) : q \in RunIndexPayloads}
                               ELSE {CompletionFailed} :
              LET amps == select_best_tones(amp_pool, max_tones, completion)
              IN  /\ selected_amps' = amps
                  /\ PresetLoop(amps, 0)
          /\ index' = 0
          /\ UNCHANGED <<cfgv, analysis, amp_pool, needs_cab, cab_pool, selected_cab,
                         used_cab_ids, rig_presets, dlv, catalog_answer, pvars>>

AmpTone == At(selected_amps, index)

\* assess_amp_needs_cab after its completion call; then build_gear_pool for
\* cabs up to its first search, or no cab.
NeedsCabDone ==
    /\ r_pc = "needs_cab"
    /\ g_pc = "done"
    /\ \/ /\ Uncaught("needs_cab")
          /\ Abort(g_result.kind)
       \/ /\ ~Uncaught("needs_cab")
          /\ \E needs \in IF g_result.ok THEN BOOLEAN
                          ELSE {fallback_amp_needs_cab(AmpTone)} :
              /\ needs_cab' = needs
              /\ IF needs
                 THEN /\ PoolBegin("build_gear_pool",
                                   CabPrimaryQueries(analysis, AmpTone),
                                   CabFallbackQueries(analysis), "ir", max_results)
                      /\ catalog_answer' \in RunAnswers("ir")
                      /\ r_pc' = "cab_pool"
                 ELSE /\ r_pc' = "preset"
                      /\ UNCHANGED <<pvars, catalog_answer>>
          /\ selected_cab' = NoTone
          /\ GeminiReset
          /\ UNCHANGED <<cfgv, selv, index, cab_pool, used_cab_ids, rig_presets, dlv,
                         r_result>>

\* The cab pool is built and filtered; select_best_cab_for_amp up to its
\* completion call.
CabPoolDone ==
    /\ r_pc = "cab_pool"
    /\ \/ /\ p_pc = "failed"
          /\ Abort("Tone search failed")
       \/ /\ p_pc = "done"
          /\ LET pool == UnusedCabs(all_tones, used_cab_ids)
             IN  /\ cab_pool' = pool
                 /\ IF pool = <<>>
                    THEN /\ r_pc' = "preset"
                         /\ UNCHANGED gvars
                    ELSE /\ r_pc' = "cab_select"
                         /\ GeminiBegin("cab_selection")
          /\ PoolReset
          /\ UNCHANGED <<cfgv, selv, index, needs_cab, selected_cab, used_cab_ids,
                         rig_presets, dlv, catalog_answer, r_result>>

\* `.filter(|i| *i < cab_candidates.len()).unwrap_or(0)`; -1: no index given.
CabIndex(given, n) == IF given >= 0 /\ given < n THEN given ELSE 0

\* select_best_cab_for_amp after its completion call; the cab is recorded as
\* used.
CabSelectDone ==
    /\ r_pc = "cab_select"
    /\ g_pc = "done"
    /\ \/ /\ Uncaught("cab_selection")
          /\ Abort(g_result.kind)
       \/ /\ ~Uncaught("cab_selection")
          /\ \E given \in IF g_result.ok THEN RunCabIndexPayloads ELSE {0} :
              LET cab_tone == At(cab_pool, CabIndex(given, Len(cab_pool)))
              IN  /\ selected_cab' = cab_tone
                  /\ used_cab_ids' = IF tone_id(cab_tone) # NoId
                                     THEN used_cab_ids \cup {tone_id(cab_tone)}
                                     ELSE used_cab_ids
          /\ r_pc' = "preset"
          /\ GeminiReset
          /\ UNCHANGED <<cfgv, selv, index, needs_cab, cab_pool, rig_presets, dlv,
                         catalog_answer, r_result, pvars>>

\* The preset directory and rig.json are written and the preset is recorded;
\* then the amp component.
WritePreset ==
    /\ r_pc = "preset"
    /\ \/ Abort("Failed to create preset directory")
       \/ Abort("Failed to write rig info file")
       \/ /\ fs' = WriteFile(fs, RigPath(index + 1), Content("run", TRUE))
          /\ rig_presets' = Append(rig_presets,
                                   RigInfo(index + 1, AmpTone, selected_cab, needs_cab))
          /\ d_role' = "amp"
          /\ r_pc' = "list_models"
          /\ UNCHANGED <<cfgv, selv, index, needs_cab, cab_pool, selected_cab,
                         used_cab_ids, all_models, selected_models, d_next,
                         model_items, downloaded_count, requested, download_error, catalog_answer,
                         r_result, gvars, pvars>>

ComponentTone == IF d_role = "amp" THEN AmpTone ELSE selected_cab

\* download_models_for_tone_component up to the completion call of
\* filter_models: the component directory, info.json, the model listing.
ListModels ==
    /\ r_pc = "list_models"
    /\ \/ Abort("Failed to create component directory")
       \/ Abort("Failed to write tone info file")
       \/ /\ r_pc' = "done"
          /\ r_result' = RunErr("Get models failed")
          /\ fs' = WriteFile(fs, InfoPath(index + 1, d_role, ComponentTone),
                             Content("run", TRUE))
          /\ UNCHANGED <<cfgv, selv, rigv, d_role, all_models, selected_models,
                         d_next, model_items, downloaded_count, requested, download_error,
                         catalog_answer, gvars, pvars>>
       \/ /\ fs' = WriteFile(fs, InfoPath(index + 1, d_role, ComponentTone),
                             Content("run", TRUE))
          /\ all_models' = CatalogModels(tone_id(ComponentTone))
          /\ r_pc' = "filter"
          /\ GeminiBegin("model_filter")
          /\ UNCHANGED <<cfgv, selv, rigv, d_role, selected_models, d_next,
                         model_items, downloaded_count, requested, download_error, catalog_answer,
                         r_result, pvars>>

\* filter_models after its completion call.
FilterDone ==
    /\ r_pc = "filter"
    /\ g_pc = "done"
    /\ \/ /\ Uncaught("model_filter")
          /\ Abort(g_result.kind)
       \/ /\ ~Uncaught("model_filter")
          /\ \E completion \in IF g_result.ok
                               THEN {CompletionGave(q) : q \in RunIndexPayloads}
                               ELSE {CompletionFailed} :
              selected_models' = filter_models(all_models, completion)
          /\ d_next' = 1
          /\ r_pc' = "models"
          /\ GeminiReset
          /\ UNCHANGED <<cfgv, selv, rigv, d_role, all_models, model_items,
                         downloaded_count, fs, requested, download_error, catalog_answer, r_result,
                         pvars>>

Model == selected_models[d_next]

Target == TargetPath(index + 1, d_role, ComponentTone, Model)

\* A record that keeps the outcome of the transfer as its status.
M_ItemFor(status) ==
    Record(index + 1, d_role, ComponentTone, Model,
           IF status = "error" THEN download_error ELSE status)

\* `model_items.push(json!({ .. "status": .., "path": .. }))`
ItemFor(status) == Record(index + 1, d_role, ComponentTone, Model, status)

\* `target_path.exists()` that never sees the file.
M_TargetExists(files, path) == FALSE

\* A check that takes a file for present only if its transfer was completed.
M_WholeTargetExists(files, path) == Exists(files, path) /\ files[path].whole

\* `target_path.exists()`
TargetExists(files, path) == Exists(files, path)

\* One iteration of `for model in selected_models` that sends no request:
\* the file exists, or the model has no URL.
SkipModel ==
    /\ r_pc = "models"
    /\ d_next <= Len(selected_models)
    /\ \/ /\ TargetExists(fs, Target)
          /\ model_items' = Append(model_items, ItemFor("skipped_exists"))
       \/ /\ ~TargetExists(fs, Target)
          /\ Model.model_url = ""
          /\ model_items' = Append(model_items, ItemFor("error"))
    /\ d_next' = d_next + 1
    /\ UNCHANGED <<r_pc, cfgv, selv, rigv, d_role, all_models, selected_models,
                   downloaded_count, fs, requested, download_error, catalog_answer, r_result,
                   gvars, pvars>>

\* A match that records every outcome but a refused request as downloaded.
M_StatusOf(outcome) == IF outcome = "request_failed" THEN "error" ELSE "downloaded"

\* `match session.download_model(..)`: the status recorded for Ok and for Err.
StatusOf(outcome) == IF outcome = "ok" THEN "downloaded" ELSE "error"

\* One iteration that downloads: Tone3000Session::download_model and the
\* record of its outcome.
DownloadModel ==
    /\ r_pc = "models"
    /\ d_next <= Len(selected_models)
    /\ ~TargetExists(fs, Target)
    /\ Model.model_url # ""
    /\ \E outcome \in DownloadOutcomes :
        /\ requested' = Append(requested, Target)
        /\ download_error' = DownloadErr(outcome)
        /\ fs' = CASE outcome = "ok" -> WriteFile(fs, Target, Content("run", TRUE))
                   [] outcome = "stream_failed" ->
                          WriteFile(fs, Target, Content("run", FALSE))
                   [] OTHER -> fs
        /\ model_items' = Append(model_items, ItemFor(StatusOf(outcome)))
        /\ downloaded_count' = IF outcome = "ok" THEN downloaded_count + 1
                               ELSE downloaded_count
    /\ d_next' = d_next + 1
    /\ UNCHANGED <<r_pc, cfgv, selv, rigv, d_role, all_models, selected_models,
                   catalog_answer, r_result, gvars, pvars>>

\* An enumeration that stays at the same preset.
M_NextPreset(i) == i

\* `for (index, amp_tone) in selected_amps.iter().enumerate()`
NextPreset(i) == i + 1

\* The component is acquired: the cab component after the amp's, else the
\* next preset, else the end of the run.
ComponentDone ==
    /\ r_pc = "models"
    /\ d_next > Len(selected_models)
    /\ all_models' = <<>>
    /\ selected_models' = <<>>
    /\ d_next' = 0
    /\ \/ /\ d_role = "amp"
          /\ selected_cab # NoTone
          /\ d_role' = "cab"
          /\ r_pc' = "list_models"
          /\ UNCHANGED <<index, r_result, gvars>>
       \/ /\ ~(d_role = "amp" /\ selected_cab # NoTone)
          /\ d_role' = ""
          /\ index' = NextPreset(index)
          /\ PresetLoop(selected_amps, NextPreset(index))
    /\ UNCHANGED <<cfgv, selv, needs_cab, cab_pool, selected_cab, used_cab_ids,
                   rig_presets, model_items, downloaded_count, fs, requested, download_error,
                   catalog_answer, pvars>>

\* The network calls of the completion client and of the pool builder
\* within the run.
RunGeminiAttempt ==
    /\ r_pc \in {"analysis", "select", "needs_cab", "cab_select", "filter"}
    /\ \E resp \in IF outage THEN {r \in RunGeminiResponses : r.kind # "ok"}
                   ELSE RunGeminiResponses :
          GeminiAttemptWith(resp)
    /\ UNCHANGED <<pvars, rvars>>

RunSearchPrimary ==
    /\ r_pc \in {"amp_pool", "relaxed_pool", "cab_pool"}
    /\ PoolSearchPrimary({catalog_answer})
    /\ UNCHANGED <<qvars, gvars, rvars>>

RunSearchFallback ==
    /\ r_pc \in {"amp_pool", "relaxed_pool", "cab_pool"}
    /\ PoolSearchFallback({catalog_answer})
    /\ UNCHANGED <<qvars, gvars, rvars>>

RunSearchFails ==
    /\ r_pc \in {"amp_pool", "relaxed_pool", "cab_pool"}
    /\ PoolSearchFails
    /\ UNCHANGED <<qvars, gvars, rvars>>

\* Where the two keys are found: in the payload, in the environment, in
\* keys.txt, or nowhere.
KeySettings ==
    { [tone3000_api_key |-> Some(<<"sp">>), gemini_api_key |-> Some(<<"sp", "key">>),
       env |-> [NoKeys EXCEPT !.file_tone = Some(<<"key">>)]],
      [tone3000_api_key |-> Some(<<"key">>), gemini_api_key |-> None, env |-> NoKeys],
      [tone3000_api_key |-> None, gemini_api_key |-> None,
       env |-> [NoKeys EXCEPT !.env_gemini = Some(<<"key">>)]],
      [tone3000_api_key |-> Some(<<"sp">>), gemini_api_key |-> Some(<<>>),
       env |-> NoKeys] }

----------------------------------------------------------------------------
(* Calls of the functions without side effects: the argument is a text of   *)
(* words, blanks ("sp") and line breaks ("nl"), or a file name of           *)
(* characters.                                                              *)

\* The words of the phrases fallback_amp_needs_cab looks for; "cabinet" is
\* "cab" followed by "inet", "without" is "with" followed by "out".
PhraseWords ==
    [p \in CabIncludedKeywords \cup HeadOnlyKeywords |->
        CASE p = "cab included"   -> <<"cab", "sp", "included">>
          [] p = "with cab"       -> <<"with", "sp", "cab">>
          [] p = "miked cab"      -> <<"miked", "sp", "cab">>
          [] p = "mic'd cab"      -> <<"mic'd", "sp", "cab">>
          [] p = "cab sim"        -> <<"cab", "sp", "sim">>
          [] p = "cabinet sim"    -> <<"cab", "inet", "sp", "sim">>
          [] p = "merged profile" -> <<"merged", "sp", "profile">>
          [] p = "full rig"       -> <<"full", "sp", "rig">>
          [] p = "head only"      -> <<"head", "sp", "only">>
          [] p = "no cab"         -> <<"no", "sp", "cab">>
          [] p = "without cab"    -> <<"with", "out", "sp", "cab">>
          [] p = "preamp only"    -> <<"preamp", "sp", "only">>
          [] p = "amp head"       -> <<"amp", "sp", "head">>]

\* `format!("{}\n{}", title, description).to_lowercase()`
amp_description_text(title, description) == LowerAll(title \o <<"nl">> \o description)

\* The phrases for which `text.contains(k)` holds.
PhrasesIn(text) ==
    {p \in DOMAIN PhraseWords : FindFrom(text, PhraseWords[p], 1) # 0}

\* The amp as the fallback sees it.
AmpText(title, description) ==
    [text |-> PhrasesIn(amp_description_text(title, description))]

CallInit ==
    /\ u_pc = "idle"
    /\ u_fn = ""
    /\ u_arg = <<>>
    /\ u_out = <<>>

\* fallback_amp_needs_cab(amp_tone), for the title and description given.
CallCabFallback ==
    /\ u_pc = "called"
    /\ u_fn = "fallback_amp_needs_cab"
    /\ u_out' = fallback_amp_needs_cab(AmpText(u_arg.title, u_arg.description))
    /\ u_pc' = "done"
    /\ UNCHANGED <<u_fn, u_arg>>

\* safe_filename(name)
CallSafeFilename ==
    /\ u_pc = "called"
    /\ u_fn = "safe_filename"
    /\ u_out' = safe_filename(u_arg)
    /\ u_pc' = "done"
    /\ UNCHANGED <<u_fn, u_arg>>

\* parse_json_object_from_text(text)
CallExtract ==
    /\ u_pc = "called"
    /\ u_fn = "parse_json_object_from_text"
    /\ u_out' = parse_json_object_from_text(u_arg)
    /\ u_pc' = "done"
    /\ UNCHANGED <<u_fn, u_arg>>

----------------------------------------------------------------------------
(* The reasons select_best_tones and filter_models return with their lists. *)

\* One item of "selection_reasons" or "model_reasons": index -1 stands for
\* an index that is absent or not an unsigned integer, reason None for one
\* that is absent or not a string.
ReasonItem(i, r) == [index |-> i, reason |-> r]

\* A map that keeps the reasons as given, empty ones included.
M_ReasonMap(items) ==
    SelectSeq(items, LAMBDA it : it.index >= 0 /\ it.reason.some)

\* `reason_map`: the items with an index and a reason that is not empty
\* once sanitized.
ReasonMap(items) ==
    SelectSeq(items, LAMBDA it :
        it.index >= 0 /\ it.reason.some /\ sanitize_line(it.reason.text) # <<>>)

\* `reason_map.get(idx).cloned().unwrap_or(generated)`: collecting into the
\* HashMap keeps the last item of an index.
ReasonFor(items, idx, generated) ==
    LET hits == SelectSeq(ReasonMap(items), LAMBDA it : it.index = idx)
    IN  IF hits = <<>> THEN generated
        ELSE sanitize_line(hits[Len(hits)].reason.text)

\* `format!("{} selected for relevance and popularity.", title)`
SelectedReason(tone) == Title(tone) \o <<"sp", "selected for relevance and popularity.">>

\* `format!("{} selected by fallback ranking (top downloads).", title)`
RankingReason(tone) == Title(tone) \o <<"sp", "selected by fallback ranking (top downloads).">>

\* `format!("{} kept as a useful match for this tone.", name)`
KeptReason(model) == model.name \o <<"sp", "kept as a useful match for this tone.">>

\* `format!("{} selected by fallback because Gemini response was invalid: {err}", name)`
InvalidReason(model) ==
    model.name \o <<"sp", "selected by fallback because Gemini response was invalid:", "sp", "err">>

\* The second list select_best_tones returns.
select_reasons(ts, max, completion, items) ==
    IF ts = <<>> THEN <<>>
    ELSE LET candidates == Candidates(ts)
         IN  IF ~completion.ok
             THEN [k \in 1..Len(Take(candidates, max)) |-> RankingReason(candidates[k])]
             ELSE LET indices == postprocess_selected_indices(
                                     candidates, RawIndices(completion.indices), max)
                  IN  [k \in 1..Len(indices) |->
                          ReasonFor(items, indices[k],
                                    SelectedReason(At(candidates, indices[k])))]

\* The second list filter_models returns.
filter_reasons(models, completion, items) ==
    IF ~completion.ok
    THEN [k \in 1..Len(Take(models, FallbackModels)) |-> InvalidReason(models[k])]
    ELSE LET in_range  == SelectSeq(RawIndices(completion.indices),
                                    LAMBDA i : i < Len(models))
             truncated == Take(in_range, ModelFilterLimit)
             indices   == IF truncated = <<>> /\ models # <<>> THEN <<0>> ELSE truncated
         IN  [k \in 1..Len(indices) |->
                 ReasonFor(items, indices[k], KeptReason(At(models, indices[k])))]

ReasonsInit ==
    /\ n_pc = "idle"
    /\ n_fn = "select"
    /\ n_list = <<>>
    /\ n_max = 0
    /\ n_completion = CompletionFailed
    /\ n_items = <<>>
    /\ n_selected = <<>>
    /\ n_reasons = <<>>

\* select_best_tones from its completion call to its return of both lists.
SelectWithReasons ==
    /\ n_pc = "called"
    /\ n_fn = "select"
    /\ n_selected' = select_best_tones(n_list, n_max, n_completion)
    /\ n_reasons' = select_reasons(n_list, n_max, n_completion, n_items)
    /\ n_pc' = "done"
    /\ UNCHANGED <<n_fn, n_list, n_max, n_completion, n_items>>

\* filter_models from its completion call to its return of both lists.
FilterWithReasons ==
    /\ n_pc = "called"
    /\ n_fn = "filter"
    /\ n_selected' = filter_models(n_list, n_completion)
    /\ n_reasons' = filter_reasons(n_list, n_completion, n_items)
    /\ n_pc' = "done"
    /\ UNCHANGED <<n_fn, n_list, n_max, n_completion, n_items>>

----------------------------------------------------------------------------
(* Two runs of the post-processing, each with the same request, the same    *)
(* answers of the collaborators and the same files in its output directory. *)
(* A run goes through five stages; the runs take their steps in any order.  *)

Twins == {1, 2}

NoOutput ==
    [analysis |-> NoAnalysis, pool |-> <<>>, selection |-> <<>>, models |-> <<>>,
     records |-> <<>>]

TwinInit ==
    /\ w_in = [request |-> <<>>, analysis |-> AFailed, results |-> <<>>,
               selection |-> CompletionFailed, filter |-> CompletionFailed,
               outcome |-> "ok", files |-> {}]
    /\ w_pc = [i \in Twins |-> 5]
    /\ w_out = [i \in Twins |-> NoOutput]

\* The files of the other run's directory count as found once that run has
\* downloaded.
M_TwinFiles(i) ==
    w_in.files \cup
        UNION {{w_out[j].records[k].path : k \in 1..Len(w_out[j].records)} :
                   j \in {j \in Twins : j # i /\ w_pc[j] = 5}}

\* The files in the output directory when run i starts.
TwinFiles(i) == w_in.files

\* `for model in selected_models` for the first preset's amp: the records,
\* given the files present and the outcome of every transfer.
RECURSIVE TwinRecords(_, _, _, _)
TwinRecords(tone, models, files, outcome) ==
    IF models = <<>> THEN <<>>
    ELSE LET model  == Head(models)
             target == TargetPath(1, "amp", tone, model)
             status == IF target \in files THEN "skipped_exists"
                       ELSE IF model.model_url = "" THEN "error"
                       ELSE StatusOf(outcome)
             after  == IF status = "downloaded" \/ outcome = "stream_failed"
                       THEN files \cup {target} ELSE files
         IN  <<Record(1, "amp", tone, model, status)>>
                 \o TwinRecords(tone, Tail(models), after, outcome)

\* The stage a run completes next.
TwinStage(i, out) ==
    CASE w_pc[i] = 0 ->
             [out EXCEPT !.analysis =
                 analyze_tone_request(
                     IF w_in.analysis.ok THEN w_in.analysis.value
                     ELSE FallbackAnalysisRaw(sanitize_line(w_in.request)),
                     sanitize_line(w_in.request))]
      [] w_pc[i] = 1 -> [out EXCEPT !.pool = AddTones(<<>>, w_in.results)]
      [] w_pc[i] = 2 ->
             [out EXCEPT !.selection = select_best_tones(out.pool, 2, w_in.selection)]
      [] w_pc[i] = 3 ->
             [out EXCEPT !.models =
                 IF out.selection = <<>> THEN <<>>
                 ELSE filter_models(CatalogModels(tone_id(out.selection[1])),
                                    w_in.filter)]
      [] w_pc[i] = 4 ->
             [out EXCEPT !.records =
                 IF out.selection = <<>> THEN <<>>
                 ELSE TwinRecords(out.selection[1], out.models, TwinFiles(i),
                                  w_in.outcome)]

\* Run i completes its next stage.
TwinStep(i) ==
    /\ w_pc[i] < 5
    /\ w_out' = [w_out EXCEPT ![i] = TwinStage(i, w_out[i])]
    /\ w_pc' = [w_pc EXCEPT ![i] = @ + 1]
    /\ UNCHANGED w_in

----------------------------------------------------------------------------
\* The meter before the run.
BudgetInit == completions = 0

----------------------------------------------------------------------------
\* Files an earlier run may have left in the output directory: the record of
\* its first preset, and the snapshot and one model of that preset's cab.
EarlierFiles ==
    { RigPath(1),
      Path(1, "cab", 11, <<"info.json">>),
      Path(1, "cab", 11, <<"c", ".", "w">>) }

\* The model file among them: the earlier run's transfer of it may have
\* broken off after the file was created.
EarlierModel == Path(1, "cab", 11, <<"c", ".", "w">>)

Init ==
    /\ GeminiInit
    /\ SelectInit
    /\ PoolInit
    /\ AnalyzeInit
    /\ FilterInit
    /\ RaceInit
    /\ ReasonsInit
    /\ CallInit
    /\ TwinInit
    /\ BudgetInit
    /\ r_pc = "start"
    /\ \E k \in KeySettings :
        /\ payload \in [request : {<<"req">>, <<"sp">>},
                        tone3000_api_key : {k.tone3000_api_key},
                        gemini_api_key : {k.gemini_api_key},
                        max_tones : {0, RunTones}, max_results : {NoneU8}]
        /\ key_env = k.env
    /\ max_tones = 0
    /\ max_results = 0
    /\ analysis = NoAnalysis
    /\ amp_pool = <<>>
    /\ selected_amps = <<>>
    /\ index = 0
    /\ needs_cab = FALSE
    /\ cab_pool = <<>>
    /\ selected_cab = NoTone
    /\ used_cab_ids = {}
    /\ rig_presets = <<>>
    /\ d_role = ""
    /\ all_models = <<>>
    /\ selected_models = <<>>
    /\ d_next = 0
    /\ model_items = <<>>
    /\ downloaded_count = 0
    /\ \E old \in {{}, EarlierFiles}, broken \in {{}, {EarlierModel}} :
        /\ broken \subseteq old
        /\ fs = [q \in old |-> Content("earlier", q \notin broken)]
    /\ requested = <<>>
    /\ download_error = ""
    /\ catalog_answer = <<>>
    /\ outage \in BOOLEAN
    /\ r_result = RunPending

Next ==
    \/ RunStart /\ UNCHANGED qvars
    \/ Authenticate /\ UNCHANGED qvars
    \/ RunGeminiAttempt /\ UNCHANGED qvars
    \/ AnalysisDone /\ UNCHANGED qvars
    \/ RunSearchPrimary
    \/ RunSearchFallback
    \/ RunSearchFails
    \/ AmpPoolDone /\ UNCHANGED qvars
    \/ RelaxedPoolDone /\ UNCHANGED qvars
    \/ SelectDone /\ UNCHANGED qvars
    \/ NeedsCabDone /\ UNCHANGED qvars
    \/ CabPoolDone /\ UNCHANGED qvars
    \/ CabSelectDone /\ UNCHANGED qvars
    \/ WritePreset /\ UNCHANGED qvars
    \/ ListModels /\ UNCHANGED qvars
    \/ FilterDone /\ UNCHANGED qvars
    \/ SkipModel /\ UNCHANGED qvars
    \/ DownloadModel /\ UNCHANGED qvars
    \/ ComponentDone /\ UNCHANGED qvars

Spec == Init /\ [][Next]_vars

----------------------------------------------------------------------------
(* The completion client on its own *)

NextGemini ==
    \/ GeminiCall /\ UNCHANGED <<qvars, pvars, rvars>>
    \/ GeminiAttempt /\ UNCHANGED <<qvars, pvars, rvars>>

InitGemini == GeminiInit /\ SelectInit /\ PoolInit /\ RunInit /\ AnalyzeInit /\ FilterInit /\ RaceInit /\ ReasonsInit /\ CallInit /\ TwinInit /\ BudgetInit

SpecGemini == InitGemini /\ [][NextGemini]_vars

----------------------------------------------------------------------------
(* The request analyzer on its own: every request and completion object     *)
(* within the bounds.                                                       *)

MaxList == 4

TermItems ==
    { JStr(<<"a">>), JStr(<<"nl", "sp">>), JStr(<<"sp", "b", "nl", "c", "nl">>), JNum }

SearchValues ==
    {JArr(items) : items \in SeqsUpTo(TermItems, MaxList)} \cup {JNull, JStr(<<"a">>)}

FallbackValues ==
    { JNull,
      JArr(<<JStr(<<"nl">>)>>),
      JArr(<<JStr(<<"a">>), JNum, JStr(<<"b", "nl">>), JStr(<<"c">>), JStr(<<"d">>)>>) }

GearValues == { JNull, JStr(<<"amp">>), JStr(<<"sp", "ir", "nl">>), JStr(<<"synth">>) }

DescriptionValues == { JNull, JStr(<<"d", "nl", "e">>) }

StepValues ==
    { JNull,
      JArr(<<JStr(<<"s1">>), JStr(<<"sp">>), JStr(<<"s2">>), JStr(<<"s3">>),
             JStr(<<"s4">>), JStr(<<"s5", "nl">>), JStr(<<"s6">>)>>) }

AnalyzeRequests == { <<"sp", "nl">>, <<"req">>, <<"nl", "a", "nl", "b", "sp">> }

AnalysisObjects ==
    [search_queries : SearchValues, gear_type : GearValues,
     description : DescriptionValues, fallback_queries : FallbackValues,
     explanation_steps : StepValues]

InitAnalyze ==
    /\ GeminiInit
    /\ SelectInit
    /\ PoolInit
    /\ RunInit
    /\ FilterInit
    /\ RaceInit
    /\ ReasonsInit
    /\ CallInit
    /\ TwinInit
    /\ BudgetInit
    /\ a_pc = "called"
    /\ user_request \in AnalyzeRequests
    /\ a_completion \in {AFailed} \cup {AGave(raw) : raw \in AnalysisObjects}
    /\ a_analysis = NoAnalysis

NextAnalyze == AnalyzeToneRequest /\ UNCHANGED <<gvars, pvars, rvars, svars, fvars, cvars, nvars, uvars, wvars, bvars>>

SpecAnalyze == InitAnalyze /\ [][NextAnalyze]_vars

----------------------------------------------------------------------------
(* The model filter on its own: every model list and completion outcome     *)
(* within the bounds.                                                       *)

MaxModels == 6

MaxPicks == 6

\* The first n models of a listing.
Listing(n) ==
    [k \in 1..n |-> ModelFile(<<"m">>, <<"u1", "u2", "u3", "u4", "u5", "u6", "u7", "u8">>[k])]

\* What "selected_indices" may hold: -1 stands for any item that is not a
\* non-negative integer, 9 for an index beyond the list.
Picks == SeqsUpTo({-1, 0, 1, 9}, MaxPicks) \cup {<<0, 1, 2, 3, 4, 5>>, <<5, 4, 3, 2, 1, 0>>}

InitFilter ==
    /\ GeminiInit
    /\ SelectInit
    /\ PoolInit
    /\ RunInit
    /\ AnalyzeInit
    /\ RaceInit
    /\ ReasonsInit
    /\ CallInit
    /\ TwinInit
    /\ BudgetInit
    /\ f_pc = "called"
    /\ f_models \in {Listing(n) : n \in 0..MaxModels}
    /\ f_completion \in {CompletionFailed} \cup {CompletionGave(q) : q \in Picks}
    /\ f_selected = <<>>

NextFilter == FilterModels /\ UNCHANGED <<gvars, pvars, rvars, svars, avars, cvars, nvars, uvars, wvars, bvars>>

SpecFilter == InitFilter /\ [][NextFilter]_vars

----------------------------------------------------------------------------
(* Two concurrent runs at the same target path, the file absent or left by  *)
(* an earlier run.                                                          *)

InitRace ==
    /\ GeminiInit
    /\ SelectInit
    /\ PoolInit
    /\ RunInit
    /\ AnalyzeInit
    /\ FilterInit
    /\ ReasonsInit
    /\ CallInit
    /\ TwinInit
    /\ BudgetInit
    /\ c_pc = [i \in Runs |-> "exists"]
    /\ c_file \in {AbsentFile, EarlierFile}
    /\ c_offset = [i \in Runs |-> 0]
    /\ c_items = [i \in Runs |-> "none"]

NextRace ==
    \/ \E i \in Runs : CheckExists(i) /\ UNCHANGED <<gvars, pvars, rvars, svars, avars, fvars, nvars, uvars, wvars, bvars>>
    \/ \E i \in Runs : SendRequest(i) /\ UNCHANGED <<gvars, pvars, rvars, svars, avars, fvars, nvars, uvars, wvars, bvars>>
    \/ \E i \in Runs : CreateFile(i) /\ UNCHANGED <<gvars, pvars, rvars, svars, avars, fvars, nvars, uvars, wvars, bvars>>
    \/ \E i \in Runs : WriteChunk(i) /\ UNCHANGED <<gvars, pvars, rvars, svars, avars, fvars, nvars, uvars, wvars, bvars>>

SpecRace == InitRace /\ [][NextRace]_vars

----------------------------------------------------------------------------
(* The reasons of both selections: small lists, every shape of the index    *)
(* list and of the reason items.                                            *)

MaxReasonItems == 2

ReasonTexts == {None, Some(<<"sp">>), Some(<<"nl", "why">>), Some(<<"best">>)}

ReasonItems == {ReasonItem(i, r) : i \in {-1, 0, 1}, r \in ReasonTexts}

ReasonPools ==
    { <<>>,
      <<Tone(3, "amp", {}, 7)>>,
      <<Tone(1, "amp", {"tubescreamer"}, 5), Tone(2, "pedal", {"boost"}, 9),
        Tone(3, "amp", {}, 7)>> }

ReasonListings ==
    {[k \in 1..n |-> ModelFile(<<<<"m">>, <<>>, <<"x", "sp", "y">>>>[k], "u")] : n \in 0..3}

InitReasons ==
    /\ GeminiInit
    /\ SelectInit
    /\ PoolInit
    /\ RunInit
    /\ AnalyzeInit
    /\ FilterInit
    /\ RaceInit
    /\ CallInit
    /\ TwinInit
    /\ BudgetInit
    /\ n_pc = "called"
    /\ \/ n_fn = "select" /\ n_list \in ReasonPools /\ n_max \in {1, 2}
       \/ n_fn = "filter" /\ n_list \in ReasonListings /\ n_max = 0
    /\ n_completion \in {CompletionFailed}
           \cup {CompletionGave(q) : q \in SeqsUpTo({-1, 0, 1, 9}, 2)}
    /\ n_items \in SeqsUpTo(ReasonItems, MaxReasonItems)
    /\ n_selected = <<>>
    /\ n_reasons = <<>>

NextReasons ==
    \/ SelectWithReasons /\ UNCHANGED <<gvars, pvars, rvars, svars, avars, fvars, cvars, uvars, wvars, bvars>>
    \/ FilterWithReasons /\ UNCHANGED <<gvars, pvars, rvars, svars, avars, fvars, cvars, uvars, wvars, bvars>>

SpecReasons == InitReasons /\ [][NextReasons]_vars

----------------------------------------------------------------------------
(* The functions without side effects on every argument within the bounds.  *)

MaxTitle == 1
MaxDescription == 5
MaxName == 4
MaxText == 4

AmpWords == {"NO", "sp", "cab", "sim"}

NameChars == {"a", " ", ".", "/", "\\", ":", "*", "ctl"}

TextTokens == {"x", "sp", "nl", "{", "}", "kv", "kvnl", "fence", "json", "["}

\* Texts with two objects after other text, and a fenced block followed by
\* an object.
LongTexts ==
    { <<"x", "{", "kv", "}", "{", "}">>,
      <<"x", "sp", "{", "}", "nl", "{", "kv", "}">>,
      <<"fence", "json", "nl", "x", "nl", "fence", "{", "kv", "}">>,
      <<"fence", "nl", "{", "kvnl", "}", "nl", "fence", "x">> }

InitCalls ==
    /\ GeminiInit
    /\ SelectInit
    /\ PoolInit
    /\ RunInit
    /\ AnalyzeInit
    /\ FilterInit
    /\ RaceInit
    /\ ReasonsInit
    /\ TwinInit
    /\ BudgetInit
    /\ u_pc = "called"
    /\ \/ /\ u_fn = "fallback_amp_needs_cab"
          /\ u_arg \in [title : SeqsUpTo(AmpWords, MaxTitle),
                        description : SeqsUpTo(AmpWords, MaxDescription)]
       \/ /\ u_fn = "safe_filename"
          /\ u_arg \in SeqsUpTo(NameChars, MaxName)
       \/ /\ u_fn = "parse_json_object_from_text"
          /\ u_arg \in SeqsUpTo(TextTokens, MaxText) \cup LongTexts
    /\ u_out = <<>>

NextCalls ==
    \/ CallCabFallback /\ UNCHANGED <<gvars, pvars, rvars, svars, avars, fvars, cvars, nvars, wvars, bvars>>
    \/ CallSafeFilename /\ UNCHANGED <<gvars, pvars, rvars, svars, avars, fvars, cvars, nvars, wvars, bvars>>
    \/ CallExtract /\ UNCHANGED <<gvars, pvars, rvars, svars, avars, fvars, cvars, nvars, wvars, bvars>>

SpecCalls == InitCalls /\ [][NextCalls]_vars

----------------------------------------------------------------------------
(* Two runs on every combination of answers below.                          *)

TwinInputs ==
    [request   : {<<"req", "nl">>},
     analysis  : {AFailed} \cup {AGave(raw) : raw \in RunAnalysisPayloads},
     results   : {<<>>, <<1>>, <<2, 1, 2>>},
     selection : {CompletionFailed, CompletionGave(<<1>>), CompletionGave(<<0, 0>>)},
     filter    : {CompletionFailed, CompletionGave(<<1, 1>>)},
     outcome   : {"ok", "stream_failed"},
     files     : {{}, {TargetPath(1, "amp", CatalogTone(1), ModelFile(<<"a">>, "u1"))}}]

InitTwin ==
    /\ GeminiInit
    /\ SelectInit
    /\ PoolInit
    /\ RunInit
    /\ AnalyzeInit
    /\ FilterInit
    /\ RaceInit
    /\ ReasonsInit
    /\ CallInit
    /\ BudgetInit
    /\ w_in \in TwinInputs
    /\ w_pc = [i \in Twins |-> 0]
    /\ w_out = [i \in Twins |-> NoOutput]

NextTwin ==
    \E i \in Twins :
        TwinStep(i) /\ UNCHANGED <<gvars, pvars, rvars, svars, avars, fvars, cvars, nvars, uvars, bvars>>

SpecTwin == InitTwin /\ [][NextTwin]_vars

----------------------------------------------------------------------------
(* The run with its meter: every request sent to the completion service is  *)
(* counted.  The run starts with a request, both keys and an empty output   *)
(* directory; the completion service may fail or answer at each request.    *)
(* A run for one preset meets every outcome of a transfer; in a run for     *)
(* more presets the transfers succeed.                                      *)

InitBudget ==
    /\ Init
    /\ Trim(payload.request) # <<>>
    /\ resolve_keys(payload, key_env).ok
    /\ DOMAIN fs = {}
    /\ ~outage

\* The collaborators and the files always answer: a step is taken whenever
\* one is possible.
NextBudget ==
    \/ RunStart /\ UNCHANGED qvars
    \/ Authenticate /\ UNCHANGED qvars
    \/ /\ RunGeminiAttempt
       /\ completions' = completions + 1
       /\ UNCHANGED <<svars, avars, fvars, cvars, nvars, uvars, wvars>>
    \/ AnalysisDone /\ UNCHANGED qvars
    \/ RunSearchPrimary
    \/ RunSearchFallback
    \/ RunSearchFails
    \/ AmpPoolDone /\ UNCHANGED qvars
    \/ RelaxedPoolDone /\ UNCHANGED qvars
    \/ SelectDone /\ UNCHANGED qvars
    \/ NeedsCabDone /\ UNCHANGED qvars
    \/ CabPoolDone /\ UNCHANGED qvars
    \/ CabSelectDone /\ UNCHANGED qvars
    \/ WritePreset /\ UNCHANGED qvars
    \/ ListModels /\ UNCHANGED qvars
    \/ FilterDone /\ UNCHANGED qvars
    \/ SkipModel /\ UNCHANGED qvars
    \/ /\ DownloadModel
       /\ max_tones > 1 => download_error' = ""
       /\ UNCHANGED qvars
    \/ ComponentDone /\ UNCHANGED qvars

SpecBudget == InitBudget /\ [][NextBudget]_vars /\ WF_vars(NextBudget)

----------------------------------------------------------------------------
(* The selection engine on its own: every pool, maximum and completion      *)
(* outcome within the bounds.                                               *)

MaxPool == 5
MaxRaw == 2
MaxIdx == 3

\* `payload.max_tones.unwrap_or(3).clamp(1, 5)`: the only values the run
\* passes as max_selections.

SelCatalog ==
    { Tone(1, "amp", {"tubescreamer"}, 5),
      Tone(2, "pedal", {"boost"}, 9),
      Tone(3, "amp", {}, 7),
      Tone(4, "pedal", {"preamp"}, 5),
      Tone(5, "amp", {"rangemaster"}, 3) }

\* Sequences over S without repetition, of length at most n.
InjectiveSeqs(S, n) ==
    {q \in SeqsUpTo(S, n) : \A i, j \in 1..Len(q) : q[i] = q[j] => i = j}

\* A pool of more than 15 tones: a boosted amp, 14 boost pedals, and a plain
\* amp with the fewest downloads.
LargePool ==
    <<Tone(20, "amp", {"tubescreamer"}, 100)>>
        \o [k \in 1..14 |-> Tone(20 + k, "pedal", {"boost"}, 100 - k)]
        \o <<Tone(35, "amp", {}, 1)>>

InitSelect ==
    /\ GeminiInit
    /\ PoolInit
    /\ RunInit
    /\ AnalyzeInit
    /\ FilterInit
    /\ RaceInit
    /\ ReasonsInit
    /\ CallInit
    /\ TwinInit
    /\ BudgetInit
    /\ s_pc = "called"
    /\ tones \in InjectiveSeqs(SelCatalog, MaxPool) \cup {LargePool}
    /\ max_selections \in MinTones..MaxTones
    /\ s_completion \in {CompletionFailed}
           \cup {CompletionGave(q) : q \in SeqsUpTo(-1..MaxIdx, MaxRaw)}
    /\ selected_tones = <<>>

NextSelect == SelectBestTones /\ UNCHANGED <<gvars, pvars, rvars, avars, fvars, cvars, nvars, uvars, wvars, bvars>>

SpecSelect == InitSelect /\ [][NextSelect]_vars

----------------------------------------------------------------------------
(* The pool builder on its own: every call within the bounds, the catalog   *)
(* answering each search with one of PoolResults or failing.                *)

MaxPrimary == 2
MaxFallback == 2
CapSpan == 1

\* `payload.max_results.unwrap_or(15).clamp(5, 25)`

PoolResults ==
    { <<>>,
      <<1, 2, 3>>,
      <<2, 3, 4>>,
      <<1, 2, 3, 4, 5, 6, 7>>,
      <<8, 9, 10, 11, 12, 13>>,
      <<3, NoId, 3, 14>> }

Prefix(q, n) == SubSeq(q, 1, n)

InitPool ==
    /\ GeminiInit
    /\ SelectInit
    /\ RunInit
    /\ AnalyzeInit
    /\ FilterInit
    /\ RaceInit
    /\ ReasonsInit
    /\ CallInit
    /\ TwinInit
    /\ BudgetInit
    /\ \E fn \in {"build_gear_pool", "build_tone_pool"},
          np \in 0..MaxPrimary, nf \in 0..MaxFallback,
          cap \in (MinResults..(MinResults + CapSpan)) \cup {MaxResults} :
          /\ p_fn = fn
          /\ primary_queries = Prefix(<<"q1", "q2", "q3", "q4">>, np)
          /\ fallback_queries = Prefix(<<"f1", "f2", "f3", "f4">>, nf)
          /\ p_gear = IF fn = "build_gear_pool" THEN "amp" ELSE ""
          /\ max_results_to_analyze = cap
          /\ p_next = 1
          /\ all_tones = <<>>
          /\ p_searches = <<>>
          /\ p_pc = PrimaryPc(fn, <<>>, primary_queries, fallback_queries, 1, cap)

NextPool ==
    \/ PoolSearchPrimary(PoolResults) /\ UNCHANGED <<gvars, qvars, rvars>>
    \/ PoolSearchFallback(PoolResults) /\ UNCHANGED <<gvars, qvars, rvars>>
    \/ PoolSearchFails /\ UNCHANGED <<gvars, qvars, rvars>>

SpecPool == InitPool /\ [][NextPool]_vars

----------------------------------------------------------------------------
(* Claims about the completion client *)

ExtractionOf(resp) == parse_json_object_from_text(gemini_response_text(resp.body))

FailedExtraction(resp) == resp.kind = "ok" /\ ~ExtractionOf(resp).ok

\* C3: one call sends at most two requests; the second is sent only after the
\* text of the first response failed extraction (and carries the corrective
\* instruction); when the second fails extraction too the call returns the
\* error that carries the extraction failure of that last attempt.
C3_AtMostOneRetry ==
    /\ Len(g_sent) <= 2
    /\ Len(g_sent) = Len(g_recv)
    /\ \A i \in 1..Len(g_sent) : g_sent[i].corrective = (i = 2)
    /\ Len(g_sent) = 2 => FailedExtraction(g_recv[1])
    /\ (Len(g_recv) = 2 /\ FailedExtraction(g_recv[2]))
          => /\ g_pc = "done"
             /\ g_result = GErr("Failed to get valid JSON from Gemini",
                                ExtractionOf(g_recv[2]).err)

\* Two requests were sent and both responses failed extraction, with
\* different failure messages.
C3_Witness ==
    /\ g_pc = "done"
    /\ Len(g_recv) = 2
    /\ FailedExtraction(g_recv[2])
    /\ ExtractionOf(g_recv[1]).err # ExtractionOf(g_recv[2]).err

\* C4: a transport failure or a non-2xx status ends the call at once, with
\* no further request, in an error other than the extraction-failure error.
C4_HttpFailureIsFatal ==
    \A i \in 1..Len(g_recv) :
        g_recv[i].kind \in {"transport", "status"}
          => /\ g_pc = "done"
             /\ Len(g_sent) = i
             /\ ~g_result.ok
             /\ g_result.kind = HttpErrorKind(g_recv[i].kind)
             /\ g_result.kind # "Failed to get valid JSON from Gemini"

\* The first request of a call met a non-2xx status.
C4_Witness ==
    /\ g_pc = "done"
    /\ Len(g_recv) = 1
    /\ g_recv[1].kind = "status"

----------------------------------------------------------------------------
(* Claims about the selection engine *)

InSelection(P(_)) == \E k \in 1..Len(selected_tones) : P(selected_tones[k])

Descending(ts) ==
    \A i, j \in 1..Len(ts) : i < j => tone_downloads(ts[i]) >= tone_downloads(ts[j])

\* C6: with a non-empty pool and a maximum of at least 1, the selection
\* returned is never empty, whatever the completion call gave.
C6_NeverEmpty ==
    (s_pc = "done" /\ tones # <<>> /\ max_selections >= 1)
        => selected_tones # <<>>

\* The completion call succeeded with indices none of which is in range, and
\* a selection was returned.
C6_Witness ==
    /\ s_pc = "done"
    /\ tones # <<>>
    /\ s_completion.ok
    /\ s_completion.indices # <<>>
    /\ \A k \in 1..Len(s_completion.indices) :
          s_completion.indices[k] < 0 \/ s_completion.indices[k] >= Len(tones)
    /\ selected_tones # <<>>

\* C7: a selection that holds an amp whose text has a boost keyword holds no
\* pedal whose text matches the preamp/boost/overdrive keywords.
C7_NoBoostPedalBesideBoostAmp ==
    (s_pc = "done" /\ InSelection(tone_contains_boost))
        => ~InSelection(tone_is_preamp_or_boost_pedal)

\* C8: after a failed completion call the selection is what post-processing
\* gives from an empty initial selection: min(max_selections, pool size)
\* candidates, in descending order of downloads.
C8_FailureIsPopularityRanking ==
    (s_pc = "done" /\ ~s_completion.ok)
        => /\ LET cs == SortByDownloads(tones)
                  ix == postprocess_selected_indices(cs, <<>>, max_selections)
              IN  selected_tones = [k \in 1..Len(ix) |-> At(cs, ix[k])]
           /\ Len(selected_tones) = Min(max_selections, Len(tones))
           /\ Descending(selected_tones)
           /\ Range(selected_tones) \subseteq Range(tones)

\* A pool of 5 given in an order other than by downloads, a maximum of 3 and
\* a failed completion call: 3 tones are returned.
C8_Witness ==
    /\ s_pc = "done"
    /\ ~s_completion.ok
    /\ Len(tones) = 5
    /\ ~Descending(tones)
    /\ max_selections = 3
    /\ Len(selected_tones) = 3

----------------------------------------------------------------------------
(* Claims about the pool builder *)

SearchesOf(phase) == SelectSeq(p_searches, LAMBDA x : x.phase = phase)

QueriesOf(ss) == [k \in 1..Len(ss) |-> ss[k].query]

\* The identifiers among the first max_results_to_analyze results of a search.
CountedIds(search) == Range(Take(search.result, max_results_to_analyze)) \ {NoId}

\* The size of the pool when the primary loop ended.
PoolAfterPrimary ==
    IF SearchesOf("fallback") = <<>> THEN Len(all_tones)
    ELSE SearchesOf("fallback")[1].before

\* C9: the pool a call returns holds each identifier at most once, and its
\* identifiers are exactly those among the first `cap` results of the
\* searches the call issued.
C9_PoolIsUnionOnce ==
    p_pc = "done"
        => /\ \A i, j \in 1..Len(all_tones) :
                 tone_id(all_tones[i]) = tone_id(all_tones[j]) => i = j
           /\ Ids(all_tones) = UNION {CountedIds(p_searches[k]) : k \in 1..Len(p_searches)}

\* Two primary searches returned [1,2,3] and [2,3,4]; the pool is 1,2,3,4.
C9_Witness ==
    /\ p_pc = "done"
    /\ Len(p_searches) = 2
    /\ p_searches[1].result = <<1, 2, 3>>
    /\ p_searches[2].result = <<2, 3, 4>>
    /\ [k \in 1..Len(all_tones) |-> tone_id(all_tones[k])] = <<1, 2, 3, 4>>

\* What C10 says apart from when fallback searches are issued: one search
\* per primary term, in order, before any fallback search; the fallback
\* terms in order, none once the pool reached the cap, and all of them
\* unless the pool reached the cap.
SearchOrder ==
    /\ QueriesOf(SearchesOf("primary")) = primary_queries
    /\ p_searches = SearchesOf("primary") \o SearchesOf("fallback")
    /\ \A k \in 1..Len(p_searches) :
          p_searches[k].gear = p_gear /\ p_searches[k].page_size = PageSize
    /\ LET fb == SearchesOf("fallback")
       IN  /\ Len(fb) <= Len(fallback_queries)
           /\ QueriesOf(fb) = Prefix(fallback_queries, Len(fb))
           /\ \A k \in 1..Len(fb) : fb[k].before < max_results_to_analyze
           /\ Len(fb) < Len(fallback_queries)
                 => \/ Len(all_tones) >= max_results_to_analyze
                    \/ fb = <<>>

\* C10 as stated: fallback searches are issued if and only if the pool has
\* fewer than 10 entries after the primary terms and there is a fallback
\* term.
C10_FallbackIffSmallPool ==
    p_pc = "done"
        => /\ SearchOrder
           /\ SearchesOf("fallback") # <<>>
                 <=> (PoolAfterPrimary < PoolThreshold /\ fallback_queries # <<>>)

\* C10 amended: fallback searches are issued if and only if, after the
\* primary terms, the pool has fewer than 10 entries and fewer entries than
\* the per-query cap, and there is a fallback term.
C10_FallbackIffSmallPoolBelowCap ==
    p_pc = "done"
        => /\ SearchOrder
           /\ SearchesOf("fallback") # <<>>
                 <=> /\ PoolAfterPrimary < PoolThreshold
                     /\ PoolAfterPrimary < max_results_to_analyze
                     /\ fallback_queries # <<>>

\* The fallback phase stopped early: the first fallback search brought the
\* pool to the cap and the second fallback term was never searched.
C10_Witness ==
    /\ p_pc = "done"
    /\ Len(primary_queries) >= 1
    /\ Len(fallback_queries) = 2
    /\ Len(SearchesOf("fallback")) = 1
    /\ Len(all_tones) >= max_results_to_analyze

----------------------------------------------------------------------------
(* Claims about the run *)

PresetsWithCab == {i \in 1..Len(rig_presets) : rig_presets[i].cab # NoId}

\* C1: across one run, no cabinet identifier is in the `cab` slot of more
\* than one preset: the cab ids of the presets produced are pairwise
\* distinct.
C1_CabIdsAreDistinct ==
    \A i, j \in PresetsWithCab : i # j => rig_presets[i].cab # rig_presets[j].cab

IterationOnExistingFile ==
    /\ r_pc = "models"
    /\ d_next <= Len(selected_models)
    /\ Exists(fs, Target)

\* C2: for a selected model whose destination path already holds a file,
\* the iteration appends a `skipped_exists` record for that model, sends no
\* download request and leaves every file as it is.
C2_ExistingFileIsSkipped ==
    [][ IterationOnExistingFile =>
          /\ model_items' = Append(model_items, ItemFor("skipped_exists"))
          /\ requested' = requested
          /\ fs' = fs ]_vars

\* A file of an earlier run was skipped: it is recorded, still as the earlier
\* run left it, and no request was sent for it.
C2_Witness ==
    \E k \in 1..Len(model_items) :
        /\ model_items[k].status = "skipped_exists"
        /\ Exists(fs, model_items[k].path)
        /\ fs[model_items[k].path] = Content("earlier", TRUE)
        /\ model_items[k].path \notin Range(requested)

CompletionFailedAtSite ==
    /\ r_pc \in {"analysis", "select", "needs_cab", "cab_select", "filter"}
    /\ g_pc = "done"
    /\ ~g_result.ok

\* The decision each call site substitutes for the completion's.
FallbackDecisionTaken ==
    CASE r_pc = "analysis" ->
             /\ analysis'.search_queries = <<Request>>
             /\ analysis'.gear_type = ""
             /\ analysis'.fallback_queries = <<>>
      [] r_pc = "select" ->
             selected_amps' = Take(SortByDownloads(amp_pool), max_tones)
      [] r_pc = "needs_cab" -> needs_cab' = fallback_amp_needs_cab(AmpTone)
      [] r_pc = "cab_select" -> selected_cab' = cab_pool[1]
      [] r_pc = "filter" -> selected_models' = Take(all_models, FallbackModels)

\* C5: a completion failure is never fatal: at each of the five call sites
\* the caller takes its fallback decision and the run goes on, and a run
\* fails only with an error that is not the completion client's, so a run
\* in which only completion calls fail returns ok=true.
C5_CompletionFailureIsNotFatal ==
    /\ [](r_pc = "done" => (r_result.ok \/ r_result.error \notin GeminiErrorKinds))
    /\ [][ CompletionFailedAtSite =>
             /\ FallbackDecisionTaken
             /\ r_pc' = "done" => r_result'.ok ]_vars

\* A run in which every completion request failed is over and returned
\* ok=true with a preset that has a cab and a downloaded model.
C5_Witness ==
    /\ outage
    /\ r_pc = "done"
    /\ r_result.ok
    /\ PresetsWithCab # {}
    /\ downloaded_count > 0

----------------------------------------------------------------------------
(* Claims about the request analyzer.  A line break is the token "nl".      *)

\* C11: when the completion call of the analyzer fails, the Analysis
\* returned has the single-lined user text as its only primary term, no
\* gear filter and no fallback terms.
C11_FallbackAnalysis ==
    (a_pc = "done" /\ ~a_completion.ok) =>
        /\ a_analysis.search_queries = <<sanitize_line(user_request)>>
        /\ a_analysis.gear_type = ""
        /\ a_analysis.fallback_queries = <<>>

C11_Witness ==
    /\ a_pc = "done"
    /\ ~a_completion.ok
    /\ "nl" \in Range(user_request)
    /\ a_analysis.search_queries = << <<"a", "sp", "b">> >>

SingleLined(t) == t # <<>> /\ "nl" \notin Range(t)

\* No string of the completion's primary list has anything but blanks.
NoPrimaryTermGiven ==
    \A item \in Range(a_completion.value.search_queries.items) :
        item.type = "string" => item.text \in SeqsUpTo({"sp", "nl"}, Len(item.text))

\* C12: for a request that is not blank, the Analysis has 1 to 3 primary
\* terms and at most 3 fallback terms, none empty or with a line break; the
\* single-lined user text is the sole primary term when the completion gave
\* no primary term; the gear filter is absent or amp, ir or pedal; and there
\* is at least one explanation step.
C12_AnalysisIsWellFormed ==
    (a_pc = "done" /\ sanitize_line(user_request) # <<>>) =>
        /\ Len(a_analysis.search_queries) \in 1..3
        /\ Len(a_analysis.fallback_queries) \in 0..3
        /\ \A t \in Range(a_analysis.search_queries) : SingleLined(t)
        /\ \A t \in Range(a_analysis.fallback_queries) : SingleLined(t)
        /\ (a_completion.ok /\ NoPrimaryTermGiven) =>
               a_analysis.search_queries = <<sanitize_line(user_request)>>
        /\ a_analysis.gear_type \in {"", "amp", "ir", "pedal"}
        /\ a_analysis.explanation_steps # <<>>
        /\ \A t \in Range(a_analysis.explanation_steps) : t # <<>>

\* The completion gave four usable primary terms and five fallback strings;
\* three of each are kept.
C12_Witness ==
    /\ a_pc = "done"
    /\ a_completion.ok
    /\ sanitize_line(user_request) # <<>>
    /\ Len(M_CleanTerms(StringsOf(a_completion.value.search_queries))) = 4
    /\ Len(a_analysis.search_queries) = 3
    /\ Len(a_analysis.fallback_queries) = 3
    /\ a_analysis.gear_type = "ir"

----------------------------------------------------------------------------
(* Claims about the model filter *)

ValidPicks == {k \in 1..Len(f_completion.indices) :
                  f_completion.indices[k] \in 0..(Len(f_models) - 1)}

\* C13: filter_models returns at most 5 models, all of them listed, and at
\* least one when the list is not empty: the first min(2, n) listed models
\* when the completion failed, the first model when the completion gave no
\* valid index.
C13_FilterKeepsOneToFive ==
    f_pc = "done" =>
        /\ Len(f_selected) <= 5
        /\ Range(f_selected) \subseteq Range(f_models)
        /\ f_models # <<>> => Len(f_selected) >= 1
        /\ ~f_completion.ok =>
               f_selected = SubSeq(f_models, 1, Min(2, Len(f_models)))
        /\ (f_completion.ok /\ ValidPicks = {} /\ f_models # <<>>) =>
               f_selected = <<f_models[1]>>

\* Six valid indices were given for six models and five models came back.
C13_Witness ==
    /\ f_pc = "done"
    /\ f_completion.ok
    /\ Cardinality(ValidPicks) = 6
    /\ Len(f_models) = 6
    /\ Len(f_selected) = 5

----------------------------------------------------------------------------
(* Claims about failures of the run *)

TransferErrors == {"Model download request failed", "Failed while streaming model file"}

\* A step in which download_model was called and returned the error e.
DownloadFailedWith(e) == requested' # requested /\ download_error' = e

\* C14: a transfer failure for one model is recorded as one `error` record
\* for that model; the loop goes on with the next selected model and the run
\* does not fail with a transfer error.
C14_TransferFailureIsPerItem ==
    /\ [](r_pc = "done" => (r_result.ok \/ r_result.error \notin TransferErrors))
    /\ [][ (\E e \in TransferErrors : DownloadFailedWith(e)) =>
             /\ model_items' = Append(model_items, ItemFor("error"))
             /\ downloaded_count' = downloaded_count
             /\ r_pc' = "models"
             /\ d_next' = d_next + 1
             /\ r_result' = r_result ]_vars

\* A run returned ok=true with an `error` record for a model whose transfer
\* broke off, and with a model downloaded after it for another component.
C14_Witness ==
    /\ r_pc = "done"
    /\ r_result.ok
    /\ \E k, n \in 1..Len(model_items) :
        /\ k < n
        /\ model_items[k].status = "error"
        /\ model_items[k].path \in Range(requested)
        /\ Exists(fs, model_items[k].path)
        /\ ~fs[model_items[k].path].whole
        /\ model_items[n].status = "downloaded"
        /\ model_items[n].component_role # model_items[k].component_role

\* C15: a failure to create a model file is fatal: the run aborts with
\* ok=false and no `error` record is appended for the model.
C15_FileCreationFailureIsFatal ==
    [][ DownloadFailedWith("Failed to create output file") =>
          /\ r_pc' = "done"
          /\ ~r_result'.ok
          /\ model_items' = model_items ]_vars

\* The network calls of a step.
AuthCall == r_pc = "auth" /\ r_pc' # "auth"
CompletionCall == Len(g_sent') > Len(g_sent)
SearchCall == Len(p_searches') > Len(p_searches)
ModelsCall ==
    r_pc = "list_models" /\ (r_pc' = "filter" \/ r_result'.error = "Get models failed")
DownloadCall == Len(requested') > Len(requested)

NetworkCall == AuthCall \/ CompletionCall \/ SearchCall \/ ModelsCall \/ DownloadCall

CatalogFailures == {"Tone3000 auth failed", "Tone search failed"}

\* C16: when authentication or a search fails the run makes no further
\* network call and returns ok=false with an object that holds the error
\* and nothing else.
C16_CatalogFailureEndsRun ==
    /\ [](r_pc = "done" /\ r_result.error \in CatalogFailures =>
              ~r_result.ok /\ r_result.keys = {"ok", "error"})
    /\ [][ /\ p_pc = "failed" =>
                 r_pc' = "done" /\ r_result'.error = "Tone search failed" /\ ~NetworkCall
           /\ r_pc = "done" => ~NetworkCall /\ r_result' = r_result ]_vars

\* A search of the second preset failed after a model of the first preset
\* was downloaded, and the object returned holds none of it.
C16_Witness ==
    /\ r_pc = "done"
    /\ r_result.error = "Tone search failed"
    /\ r_result.keys = {"ok", "error"}
    /\ Len(rig_presets) = 1
    /\ downloaded_count > 0

Found(key, a, b) == (key.some /\ Trim(key.text) # <<>>) \/ a.some \/ b.some

BothKeysFound ==
    /\ Found(payload.tone3000_api_key, key_env.env_tone, key_env.file_tone)
    /\ Found(payload.gemini_api_key, key_env.env_gemini, key_env.file_gemini)

UsableInput == Trim(payload.request) # <<>> /\ BothKeysFound

\* C17: a run makes a network call only if the request is not blank and
\* both keys are found; otherwise its first step returns ok=false with the
\* error for the request or for the keys.
C17_NoCallWithoutRequestAndKeys ==
    [][ /\ NetworkCall => UsableInput
        /\ (r_pc = "start" /\ ~UsableInput) =>
               /\ r_pc' = "done"
               /\ ~r_result'.ok
               /\ r_result'.error \in {"Request text is required.", "Missing API keys"}
               /\ ~NetworkCall ]_vars

\* The run ended for a missing completion key although the catalog key was
\* given.
C17_Witness ==
    /\ r_pc = "done"
    /\ r_result.error = "Missing API keys"
    /\ Trim(payload.request) # <<>>
    /\ payload.tone3000_api_key = Some(<<"key">>)
    /\ g_sent = <<>> /\ p_searches = <<>> /\ requested = <<>>

\* C18: for every value of the optional limits the effective preset count
\* is in 1..5 and the effective pool cap in 5..25, and a run has no more
\* selected amps and no more presets than the effective preset count.
C18_LimitsAreClamped ==
    /\ r_pc = "start" =>
          \A v \in {NoneU8} \cup 0..255 :
              EffectiveTones(v) \in 1..5 /\ EffectiveResults(v) \in 5..25
    /\ r_pc \notin {"start", "done"} => max_tones \in 1..5 /\ max_results \in 5..25
    /\ r_pc # "start" =>
          /\ Len(selected_amps) <= Clamp(payload.max_tones, 1, 5)
          /\ Len(rig_presets) <= Clamp(payload.max_tones, 1, 5)

\* A request for 0 presets found two amps and produced one preset.
C18_Witness ==
    /\ r_pc = "done"
    /\ r_result.ok
    /\ payload.max_tones = 0
    /\ Len(amp_pool) = 2
    /\ Len(rig_presets) = 1

----------------------------------------------------------------------------
(* Claims about the order of the network calls of a run *)

RigCall ==
    \/ CompletionCall /\ r_pc \in {"needs_cab", "cab_select"}
    \/ SearchCall /\ r_pc = "cab_pool"

\* get_models was called for a component of the preset n: its info.json was
\* written by this run.
DownloadStarted(n) ==
    \E q \in DOMAIN fs :
        q.preset = n /\ q.file = <<"info.json">> /\ fs[q].origin = "run"

CallsOfStep ==
    {c \in {"auth", "completion", "search", "models", "download"} :
        \/ c = "auth" /\ AuthCall
        \/ c = "completion" /\ CompletionCall
        \/ c = "search" /\ SearchCall
        \/ c = "models" /\ ModelsCall
        \/ c = "download" /\ DownloadCall}

\* C19 as stated: no network call of the rig assembler is made after the
\* first network call of the downloader in the run.
C19_RigCallsBeforeAllDownloads ==
    [][ RigCall => \A n \in 1..MaxTones : ~DownloadStarted(n) ]_vars

\* C19: the analysis, the amp searches and the selection complete in this
\* order before the first preset; for each preset the network calls of the
\* rig assembler are made before the downloader's calls for that preset,
\* which follow the writing of the preset; and a step makes at most one
\* network call.
C19_StagesInOrderPerPreset ==
    [][ /\ Cardinality(CallsOfStep) <= 1
        /\ (SearchCall /\ r_pc \in {"amp_pool", "relaxed_pool"}) =>
               analysis # NoAnalysis /\ selected_amps = <<>> /\ rig_presets = <<>>
        /\ (CompletionCall /\ r_pc = "select") => amp_pool # <<>> /\ rig_presets = <<>>
        /\ RigCall =>
               /\ index < Len(selected_amps)
               /\ Len(rig_presets) = index
               /\ ~DownloadStarted(index + 1)
        /\ (ModelsCall \/ DownloadCall \/ (CompletionCall /\ r_pc = "filter")) =>
               Len(rig_presets) = index + 1 ]_vars

\* A cabinet search of the second preset was made after the models of the
\* first preset were listed.
C19_Witness ==
    /\ index = 1
    /\ r_pc = "cab_pool"
    /\ p_searches # <<>>
    /\ DownloadStarted(1)
    /\ ~DownloadStarted(2)

----------------------------------------------------------------------------
(* Claims about two runs at the same target path *)

StepOf(i) == c_pc'[i] # c_pc[i]

\* C20: the existence check and the write are separate steps: a run skips
\* only at its own check, and only a file that exists then; a run past its
\* check records `downloaded` when its transfer ends, whatever the other
\* run did to the file meanwhile; so both runs can record `downloaded` for
\* the same path, and then the file holds a whole body.
C20_CheckThenWriteIsNotAtomic ==
    /\ [][\A i \in Runs :
            /\ (StepOf(i) /\ c_pc[i] = "exists") =>
                   IF c_file.exists
                   THEN c_items'[i] = "skipped_exists"
                   ELSE c_pc'[i] = "send" /\ c_items'[i] = "none"
            /\ (c_items'[i] = "skipped_exists" /\ c_items[i] = "none") =>
                   c_pc[i] = "exists" /\ c_file.exists
            /\ (c_items'[i] = "downloaded" /\ c_items[i] = "none") =>
                   c_pc[i] = "chunk" /\ c_offset[i] = Chunks ]_vars
    /\ []((\A i \in Runs : c_items[i] = "downloaded") =>
              c_file.exists /\ Len(c_file.bytes) = Chunks
                  /\ \A k \in 1..Chunks : c_file.bytes[k] \in Runs)

\* Both runs found the file absent, both streamed to it, and both recorded
\* `downloaded`; the file holds bytes of both.
C20_Witness ==
    /\ \A i \in Runs : c_items[i] = "downloaded" /\ c_offset[i] = Chunks
    /\ \A i \in Runs : \E k \in 1..Len(c_file.bytes) : c_file.bytes[k] = i

----------------------------------------------------------------------------
(* Claims about the download records of a run *)

DownloadStatuses == {"downloaded", "skipped_exists", "error"}

StatusesOf(items) == {items[k].status : k \in DOMAIN items}

\* C21: every download record of a run has one of the statuses downloaded,
\* skipped_exists and error; a step only appends records and leaves the
\* records already pushed as they are; and downloaded_count is the number
\* of records with the status downloaded.
C21_RecordsAreAppendOnly ==
    /\ [](StatusesOf(model_items) \subseteq DownloadStatuses)
    /\ [](downloaded_count =
              Cardinality({k \in DOMAIN model_items : model_items[k].status = "downloaded"}))
    /\ [][ /\ Len(model_items') \in {Len(model_items), Len(model_items) + 1}
           /\ SubSeq(model_items', 1, Len(model_items)) = model_items ]_vars

\* A successful run ended with records of all three statuses.
C21_Witness ==
    /\ r_pc = "done"
    /\ r_result.ok
    /\ StatusesOf(model_items) = DownloadStatuses
    /\ downloaded_count < Len(model_items)

----------------------------------------------------------------------------
(* Claims about the reasons of a selection *)

\* C22: select_best_tones and filter_models return one reason per selected
\* item, and no reason is empty, whatever the completion service gave as
\* reasons.
C22_OneReasonPerSelectedItem ==
    n_pc = "done" =>
        /\ Len(n_reasons) = Len(n_selected)
        /\ \A k \in 1..Len(n_reasons) : n_reasons[k] # <<>>

\* Two items were selected; the completion service gave a blank reason for
\* the first, which got a generated one, and a reason for the second.
C22_Witness ==
    /\ n_pc = "done"
    /\ n_completion.ok
    /\ Len(n_selected) = 2
    /\ Len(n_reasons) = 2
    /\ n_completion.indices \in {<<0, 1>>, <<1, 0>>}
    /\ \E a, b \in 1..Len(n_items) :
          /\ n_items[a] = ReasonItem(n_completion.indices[1], Some(<<"sp">>))
          /\ n_items[b] = ReasonItem(n_completion.indices[2], Some(<<"best">>))
    /\ n_reasons[2] = <<"best">>
    /\ n_reasons[1] \notin {<<"best">>, <<"why">>}

----------------------------------------------------------------------------
(* Claims about the files found in the output directory *)

\* C23: no step of a run replaces or removes a file that was in the output
\* directory before the run.
C23_EarlierFilesAreKept ==
    [][ \A q \in DOMAIN fs :
            fs[q].origin = "earlier" => q \in DOMAIN fs' /\ fs'[q] = fs[q] ]_vars

----------------------------------------------------------------------------
(* Claims about the functions without side effects *)

\* The phrase occurs in the title, a line break and the description, in
\* lower case.
Occurs(p) ==
    LET text == LowerAll(u_arg.title \o <<"nl">> \o u_arg.description)
    IN  \E i \in 1..Len(text) :
            i + Len(PhraseWords[p]) - 1 <= Len(text)
                /\ SubSeq(text, i, i + Len(PhraseWords[p]) - 1) = PhraseWords[p]

CabFallbackDone == u_pc = "done" /\ u_fn = "fallback_amp_needs_cab"

\* C25: the fallback answers "not needed" exactly when a cab-inclusion
\* phrase occurs in the lower-cased title and description, also when a
\* head-only phrase occurs too, and "needed" in every other case.
C25_CabNeededUnlessIncluded ==
    CabFallbackDone => (u_out <=> ~\E p \in CabIncludedKeywords : Occurs(p))

\* A cab-inclusion phrase and a head-only phrase both occur, and the answer
\* is "not needed".
C25_Witness ==
    /\ CabFallbackDone
    /\ Occurs("no cab")
    /\ Occurs("cab sim")
    /\ u_out = FALSE

SafeFilenameDone == u_pc = "done" /\ u_fn = "safe_filename"

\* C26: safe_filename returns a name that is not empty and holds none of
\* the characters / \ : * ? " < > | and no control character; a name of
\* blanks and dots only gives the placeholder "model".
C26_FilenameIsSafe ==
    SafeFilenameDone =>
        /\ u_out # <<>>
        /\ \A k \in 1..Len(u_out) :
               u_out[k] \notin {"/", "\\", ":", "*", "?", "\"", "<", ">", "|", "ctl"}
        /\ (\A k \in 1..Len(u_arg) : u_arg[k] \in {" ", "."}) =>
               u_out = <<"m", "o", "d", "e", "l">>

\* A name with a directory and reserved characters gave a name of
\* underscores.
C26_Witness ==
    /\ SafeFilenameDone
    /\ u_arg = <<"a", "/", ":", "*">>
    /\ u_out = <<"_", "_">>

ExtractDone == u_pc = "done" /\ u_fn = "parse_json_object_from_text"

\* The texts the extractor tries, in order: the trimmed text, the text
\* without its leading fence, that text on a single line, and its suffixes
\* at each "{" from the left.
Attempts(text) ==
    LET raw == Unfenced(Trim(text))
    IN  <<Trim(text), raw, sanitize_line(raw)>>
            \o SelectSeq([k \in 1..Len(raw) |-> SubSeq(raw, k, Len(raw))],
                         LAMBDA suffix : Head(suffix) = "{")

ParsedAt(text, k) == parse_json_object_segment(Attempts(text)[k])

\* C27: the extractor returns an object or a failure: the object of the
\* first of its attempts that parses as an object, the failure for an empty
\* text when the text is blank, and the failure for an invalid text when no
\* attempt parses.
C27_FirstObjectOrFailure ==
    ExtractDone =>
        LET n == Len(Attempts(u_arg))
        IN  /\ u_out.ok => u_out.value.ok
            /\ Trim(u_arg) = <<>> =>
                   ~u_out.ok /\ u_out.err.msg = "Empty Gemini response"
            /\ Trim(u_arg) # <<>> =>
                   IF \E k \in 1..n : ParsedAt(u_arg, k).ok
                   THEN /\ u_out.ok
                        /\ \E k \in 1..n :
                              /\ u_out.value = ParsedAt(u_arg, k)
                              /\ \A j \in 1..(k - 1) : ~ParsedAt(u_arg, j).ok
                   ELSE ~u_out.ok /\ u_out.err.msg = "Invalid JSON from Gemini"
            /\ ("{" \notin Range(u_arg)) => ~u_out.ok

\* Two objects follow other text, and the object returned is the left one.
C27_Witness ==
    /\ ExtractDone
    /\ u_arg = <<"x", "{", "kv", "}", "{", "}">>
    /\ u_out.ok
    /\ u_out.value.members = 1

----------------------------------------------------------------------------
(* Claims about the post-processing of the selection *)

Selected(P(_)) == {k \in 1..Len(selected_tones) : P(selected_tones[k])}

\* C28: the selection returned never holds both an amp with a boost keyword
\* and a pedal with a preamp, boost or overdrive keyword, whether they were
\* chosen by the completion service or appended by the backfill.
C28_NoBoostPairInSelection ==
    s_pc = "done" =>
        Selected(tone_contains_boost) = {} \/ Selected(tone_is_preamp_or_boost_pedal) = {}

Permitted(tone) ==
    ~(Selected(tone_contains_boost) # {} /\ tone_is_preamp_or_boost_pedal(tone))

\* C29: a selection smaller than max_selections is returned only when the
\* whole pool given is exhausted: every tone of the pool is selected or is a
\* pedal the boost rule disallows.
C29_BackfillDrawsFromWholePool ==
    (s_pc = "done" /\ s_completion.ok /\ Len(selected_tones) < max_selections) =>
        \A k \in 1..Len(tones) :
            tones[k] \in Range(selected_tones) \/ ~Permitted(tones[k])

\* The indices of the selected tones among the candidates.
IndexOf(tone) == CHOOSE i \in 0..(Len(tones) - 1) : At(Candidates(tones), i) = tone

SelectedIndices == [k \in 1..Len(selected_tones) |-> IndexOf(selected_tones[k])]

Returned == RawIndices(s_completion.indices)

FirstSeen(i) == CHOOSE q \in 1..Len(Returned) :
                    Returned[q] = i /\ \A r \in 1..(q - 1) : Returned[r] # i

\* C30: in the selection no candidate appears twice, the candidates the
\* completion service chose come first, in the order in which their indices
\* were first returned, and the backfilled candidates follow.
C30_ChosenFirstInFirstSeenOrder ==
    (s_pc = "done" /\ s_completion.ok) =>
        /\ \A i, j \in 1..Len(selected_tones) :
               selected_tones[i] = selected_tones[j] => i = j
        /\ \A i, j \in 1..Len(selected_tones) :
               (i < j /\ SelectedIndices[j] \in Range(Returned)) =>
                   /\ SelectedIndices[i] \in Range(Returned)
                   /\ FirstSeen(SelectedIndices[i]) < FirstSeen(SelectedIndices[j])

\* The completion service returned the second candidate twice; it is
\* selected once, ahead of the backfilled first candidate.
C30_Witness ==
    /\ s_pc = "done"
    /\ s_completion = CompletionGave(<<1, 1>>)
    /\ Len(selected_tones) = 3
    /\ SelectedIndices = <<1, 0, 2>>

----------------------------------------------------------------------------
(* Claims about two runs on the same inputs *)

----------------------------------------------------------------------------
(* Claims about the cabinet of a preset *)

\* select_best_cab_for_amp returns after a completion call that failed.
CabCompletionFailed == r_pc = "cab_select" /\ g_pc = "done" /\ ~g_result.ok

\* C31: when the completion call for cabinet selection fails, the cabinet
\* selected is the first candidate of the cabinet pool, and that candidate
\* is not the cabinet of an earlier preset of the run.
C31_FallbackCabIsFirstAndUnused ==
    [][ CabCompletionFailed =>
          /\ selected_cab' = cab_pool[1]
          /\ \A k \in 1..Len(rig_presets) : rig_presets[k].cab # tone_id(cab_pool[1])
      ]_vars

----------------------------------------------------------------------------
(* Claims about files a broken transfer leaves behind *)

\* The files whose transfer broke off after they were created.
PartialFiles(files) == {q \in DOMAIN files : ~files[q].whole}

\* C32: a transfer that fails after the destination file was created leaves
\* the partial file on disk and appends an `error` record; an iteration that
\* finds a partial file, of this run or of an earlier one, appends
\* `skipped_exists` and sends no request; so a partial file is never
\* requested again and stays as it is.
C32_PartialFileIsNeverRefetched ==
    [][ /\ DownloadFailedWith("Failed while streaming model file") =>
              /\ Target \in PartialFiles(fs')
              /\ model_items' = Append(model_items, ItemFor("error"))
        /\ (IterationOnExistingFile /\ Target \in PartialFiles(fs)) =>
              /\ model_items' = Append(model_items, ItemFor("skipped_exists"))
              /\ requested' = requested
        /\ \A q \in PartialFiles(fs) :
              /\ q \in PartialFiles(fs')
              /\ fs'[q] = fs[q]
              /\ DownloadCall => requested'[Len(requested')] # q ]_vars

\* A run found the partial file of an earlier run and skipped it, and left a
\* partial file of its own with an `error` record.
C32_Witness ==
    /\ r_pc = "done"
    /\ \E k \in 1..Len(model_items) :
        /\ model_items[k].status = "skipped_exists"
        /\ model_items[k].path = EarlierModel
        /\ fs[EarlierModel] = Content("earlier", FALSE)
        /\ EarlierModel \notin Range(requested)
    /\ \E n \in 1..Len(model_items) :
        /\ model_items[n].status = "error"
        /\ model_items[n].path \in PartialFiles(fs)
        /\ fs[model_items[n].path].origin = "run"

----------------------------------------------------------------------------
(* Claims about models that map to the same path *)

\* The iteration is at a model whose path holds a model downloaded earlier
\* in the run.
IterationOnDownloadedPath ==
    /\ r_pc = "models"
    /\ d_next <= Len(selected_models)
    /\ \E k \in 1..Len(model_items) :
        model_items[k].status = "downloaded" /\ model_items[k].path = Target

\* C33: within one run no path is recorded `downloaded` twice and no path
\* is requested again after its download: a selected model that maps to the
\* path of a model downloaded before it, by a repeated index or by a name
\* with the same file name, is recorded `skipped_exists` without a request.
C33_NoPathDownloadedTwice ==
    /\ [](\A k, n \in 1..Len(model_items) :
            (k < n /\ model_items[k].status = "downloaded"
                   /\ model_items[n].path = model_items[k].path) =>
                model_items[n].status = "skipped_exists")
    /\ [][ IterationOnDownloadedPath =>
             /\ model_items' = Append(model_items, ItemFor("skipped_exists"))
             /\ requested' = requested
             /\ downloaded_count' = downloaded_count ]_vars

\* Two different models with the same file name were selected for the amp
\* of the second preset, the first was downloaded and the second skipped,
\* after the same happened to a model selected twice for the first preset.
C33_Witness ==
    /\ r_pc = "models"
    /\ d_next = 3
    /\ selected_models[1] # selected_models[2]
    /\ \E n \in 2..Len(model_items) :
        /\ n = Len(model_items)
        /\ model_items[n].status = "skipped_exists"
        /\ model_items[n - 1].status = "downloaded"
        /\ model_items[n - 1].path = model_items[n].path
        /\ Cardinality({q \in Range(requested) : q = model_items[n].path}) = 1
    /\ \E k \in 2..Len(model_items) :
        /\ model_items[k].preset = 1
        /\ model_items[k].status = "skipped_exists"
        /\ model_items[k - 1].status = "downloaded"
        /\ model_items[k - 1].path = model_items[k].path
        /\ model_items[k - 1].tone_id = 2

----------------------------------------------------------------------------
(* Claims about a failure of the model listing *)

\* A step in which get_models returned an error.
ModelListingFails == r_pc = "list_models" /\ r_result'.error = "Get models failed"

\* What the run wrote before the model listing failed: the record of every
\* preset, the snapshot of the component and every model downloaded.
WrittenByRun ==
    {RigPath(n) : n \in 1..Len(rig_presets)}
        \cup {InfoPath(index + 1, d_role, ComponentTone)}
        \cup {model_items[k].path : k \in {n \in 1..Len(model_items) :
                                              model_items[n].status = "downloaded"}}

\* C34: when the model listing of a component fails the run ends with
\* ok=false and an error string, the object returned holds neither presets
\* nor records, and nothing is rolled back: the step removes and changes no
\* file, and the rig records, the snapshot and the models the run wrote,
\* those of the current preset included, are on disk.
C34_ModelListingFailureRollsNothingBack ==
    /\ []((r_pc = "done" /\ r_result.error = "Get models failed") =>
              /\ ~r_result.ok
              /\ r_result.keys = {"ok", "error"}
              /\ Len(rig_presets) = index + 1
              /\ \A q \in WrittenByRun : Exists(fs, q) /\ fs[q] = Content("run", TRUE))
    /\ [][ ModelListingFails =>
             /\ r_pc' = "done"
             /\ \A q \in DOMAIN fs :
                    /\ Exists(fs', q)
                    /\ q # InfoPath(index + 1, d_role, ComponentTone) => fs'[q] = fs[q]
             /\ ~CompletionCall /\ ~DownloadCall /\ ~SearchCall ]_vars

\* The model listing failed for the cab of the second preset, after models
\* of the first preset and of the amp of the second were downloaded.
C34_Witness ==
    /\ r_pc = "done"
    /\ r_result = RunErr("Get models failed")
    /\ index = 1
    /\ d_role = "cab"
    /\ Len(rig_presets) = 2
    /\ \E k, n \in 1..Len(model_items) :
        /\ model_items[k].preset = 1 /\ model_items[k].status = "downloaded"
        /\ model_items[n].preset = 2 /\ model_items[n].status = "downloaded"
    /\ Exists(fs, RigPath(1)) /\ Exists(fs, RigPath(2))

----------------------------------------------------------------------------
(* Claims about a run that finds no amp *)

\* build_tone_pool returned a pool without any amp, after build_gear_pool
\* returned an empty one.
NoAmpFound ==
    /\ r_pc = "relaxed_pool"
    /\ p_pc = "done"
    /\ \A k \in 1..Len(all_tones) : all_tones[k].gear # "amp"

\* The files the run wrote.
FilesOfRun == {q \in DOMAIN fs : fs[q].origin = "run"}

\* C35: when neither the strict nor the relaxed search yields an amp the run
\* returns ok=true with an empty pool, no selected tone, no preset and no
\* download record; from the end of the request analysis to the end of the
\* run it makes no completion, model-listing or download call and writes no
\* file or directory.
C35_NoAmpIsAnEmptySuccess ==
    /\ []((r_pc = "done" /\ r_result.ok /\ amp_pool = <<>>) =>
              /\ r_result = RunOk
              /\ selected_amps = <<>>
              /\ rig_presets = <<>>
              /\ model_items = <<>>
              /\ downloaded_count = 0
              /\ requested = <<>>
              /\ FilesOfRun = {})
    /\ [][ /\ NoAmpFound => r_pc' = "done" /\ r_result' = RunOk /\ amp_pool' = <<>>
           /\ r_pc \in {"amp_pool", "relaxed_pool"} =>
                  /\ ~CompletionCall /\ ~ModelsCall /\ ~DownloadCall
                  /\ fs' = fs
           /\ r_pc = "done" => ~NetworkCall /\ fs' = fs ]_vars

\* The strict search found nothing and the relaxed search found a cabinet
\* only: the run returned ok=true with nothing in it and the files of the
\* earlier run are all there is on disk.
C35_Witness ==
    /\ r_pc = "done"
    /\ r_result = RunOk
    /\ catalog_answer = <<11>>
    /\ analysis # NoAnalysis
    /\ amp_pool = <<>>
    /\ rig_presets = <<>>
    /\ DOMAIN fs = EarlierFiles

----------------------------------------------------------------------------
(* Claims about the cab slot of a preset *)

\* A network call for the cabinet of the preset: a cabinet search or the
\* completion call of the cabinet selection.
CabCall ==
    \/ SearchCall /\ r_pc = "cab_pool"
    \/ CompletionCall /\ r_pc = "cab_select"

\* C36: the cab slot of a preset is filled only if its amp was judged to need
\* a cab.  After the judgment `not needed` the preset is written next, with
\* an empty slot and without a cabinet search or a cabinet-selection call;
\* after `needed`, a cabinet search that returns a non-empty pool is followed
\* by the selection, which always yields a cabinet of the pool, and that
\* cabinet fills the slot.
C36_CabSlotFollowsJudgment ==
    /\ [](/\ \A k \in 1..Len(rig_presets) :
                rig_presets[k].cab # NoId => rig_presets[k].needs_cab
          /\ r_pc \in {"cab_pool", "cab_select"} => needs_cab
          /\ (r_pc = "preset" /\ ~needs_cab) => selected_cab = NoTone
          /\ (r_pc = "preset" /\ needs_cab /\ cab_pool # <<>>) =>
                selected_cab \in Range(cab_pool))
    /\ [][ /\ CabCall => needs_cab'
           /\ (r_pc = "needs_cab" /\ g_pc = "done" /\ ~needs_cab') =>
                  r_pc' = "preset" /\ selected_cab' = NoTone /\ ~CabCall
           /\ (r_pc = "cab_pool" /\ p_pc = "done" /\ all_tones # <<>>) =>
                  r_pc' = "cab_select" /\ cab_pool' # <<>>
           /\ (r_pc = "cab_select" /\ g_pc = "done") =>
                  r_pc' = "preset" /\ selected_cab' \in Range(cab_pool)
           /\ (r_pc = "preset" /\ r_pc' # "done") =>
                  rig_presets' = Append(rig_presets,
                      RigInfo(index + 1, AmpTone, selected_cab, needs_cab)) ]_vars

\* A run produced a preset with a cab for an amp judged to need one and a
\* preset with an empty slot for an amp judged complete.
C36_Witness ==
    /\ r_pc = "done"
    /\ r_result.ok
    /\ Len(rig_presets) = 2
    /\ rig_presets[1].needs_cab /\ rig_presets[1].cab # NoId
    /\ ~rig_presets[2].needs_cab /\ rig_presets[2].cab = NoId

----------------------------------------------------------------------------
(* Claims about the order of the stages of a preset *)

\* The stage of the run: 0 before the first preset, 1 the cab-needed
\* judgment, 2 the cabinet search, 3 the cabinet selection, 4 the write of
\* the rig record, 5 the acquisition of the amp's models, 6 that of the
\* cabinet's models, 7 the end of the run.
StageAt(pc, role) ==
    CASE pc = "needs_cab"  -> 1
      [] pc = "cab_pool"   -> 2
      [] pc = "cab_select" -> 3
      [] pc = "preset"     -> 4
      [] pc \in {"list_models", "filter", "models"} /\ role = "amp" -> 5
      [] pc \in {"list_models", "filter", "models"} /\ role # "amp" -> 6
      [] pc = "done"       -> 7
      [] OTHER             -> 0

\* The loop over the selected models of the component has ended.
AcquisitionEnded == r_pc = "models" /\ d_next > Len(selected_models)

\* C37: presets are processed one after another.  Within a preset the
\* stages are entered in the order judgment, cabinet search, cabinet
\* selection, write of the rig record, amp models, cabinet models, each from
\* a stage before it; the rig record is written when the amp's models begin;
\* the cabinet's models begin when the amp's have ended; and the judgment of
\* the next preset begins only when the last acquisition of the preset has
\* ended.
C37_PresetsAndStagesInOrder ==
    /\ [](\A k, n \in 1..Len(model_items) :
            k < n =>
              /\ model_items[k].preset <= model_items[n].preset
              /\ (model_items[k].preset = model_items[n].preset
                    /\ model_items[k].component_role = "cab") =>
                     model_items[n].component_role = "cab")
    /\ [][ LET a == StageAt(r_pc, d_role)
               b == StageAt(r_pc', d_role')
           IN  /\ index' \in {index, index + 1}
               /\ (index' = index /\ a >= 1) => a <= b
               /\ index' = index + 1 =>
                      /\ a \in {5, 6} /\ b \in {1, 7}
                      /\ AcquisitionEnded
                      /\ a = 6 \/ selected_cab = NoTone
               /\ (b = 1 /\ a # 1) => (a = 0 \/ index' = index + 1)
               /\ (b = 2 /\ a # 2) => a = 1
               /\ (b = 3 /\ a # 3) => a = 2
               /\ (b = 4 /\ a # 4) => a \in {1, 2, 3}
               /\ (b = 5 /\ a # 5) => a = 4 /\ Len(rig_presets') = index + 1
               /\ (b = 6 /\ a # 6) => a = 5 /\ AcquisitionEnded
               /\ (CompletionCall /\ r_pc = "needs_cab") =>
                      /\ Len(rig_presets) = index
                      /\ \A k \in 1..Len(model_items) : model_items[k].preset <= index
         ]_vars

\* The judgment for the second preset was asked for after the amp's and the
\* cabinet's models of the first preset were acquired.
C37_Witness ==
    /\ r_pc = "needs_cab"
    /\ index = 1
    /\ g_sent # <<>>
    /\ Len(rig_presets) = 1
    /\ \E k, n \in 1..Len(model_items) :
        /\ k < n
        /\ model_items[k].component_role = "amp"
        /\ model_items[n].component_role = "cab"
        /\ model_items[n].preset = 1

----------------------------------------------------------------------------
(* Claims about the end of a run and its completion requests *)

\* The most requests a run with the effective preset count p sends to the
\* completion service: two for each of its calls, which are the analysis,
\* the selection and four for each preset.
CompletionBudget(p) == MaxAttempts * (2 + 4 * p)

\* The effective max preset count of the run.
PresetCount == Clamp(payload.max_tones, MinTones, MaxTones)

\* The position of the run in run_download_inner: the preset, the statement
\* within the loop body or before the loop, and the iteration of the loop
\* that statement is in.
StatementAt(pc, role) ==
    CASE pc = "start"        -> 0
      [] pc = "auth"         -> 1
      [] pc = "analysis"     -> 2
      [] pc = "amp_pool"     -> 3
      [] pc = "relaxed_pool" -> 4
      [] pc = "select"       -> 5
      [] pc = "needs_cab"    -> 6
      [] pc = "cab_pool"     -> 7
      [] pc = "cab_select"   -> 8
      [] pc = "preset"       -> 9
      [] pc = "list_models" /\ role = "amp" -> 10
      [] pc = "filter" /\ role = "amp"      -> 11
      [] pc = "models" /\ role = "amp"      -> 12
      [] pc = "list_models" /\ role # "amp" -> 13
      [] pc = "filter" /\ role # "amp"      -> 14
      [] pc = "models" /\ role # "amp"      -> 15

\* The queries of one search loop and the iterations of a statement's loops
\* are fewer than these.
QuerySpan == 10
IterationSpan == 32
StatementSpan == 16

IterationAt ==
    CASE r_pc \in {"analysis", "select", "needs_cab", "cab_select", "filter"} ->
             IF g_pc = "done" THEN MaxAttempts ELSE attempt
      [] r_pc \in {"amp_pool", "relaxed_pool", "cab_pool"} ->
             CASE p_pc = "primary"  -> p_next
               [] p_pc = "fallback" -> QuerySpan + p_next
               [] OTHER             -> 2 * QuerySpan
      [] r_pc = "models" -> d_next
      [] OTHER -> 0

End == (MaxTones + 1) * StatementSpan * IterationSpan

Position ==
    IF r_pc = "done" THEN End
    ELSE (index * StatementSpan + StatementAt(r_pc, d_role)) * IterationSpan
             + IterationAt

\* The run can take a step.  After a completion call has returned, the
\* statement that called it goes on with the result or with its fallback; an
\* iteration of the download loop skips the model or calls download_model;
\* everywhere else some action of the run is enabled.
CanStep ==
    CASE r_pc \in {"analysis", "select", "needs_cab", "cab_select", "filter"}
             /\ g_pc = "done" -> TRUE
      [] r_pc = "models" /\ d_next <= Len(selected_models) ->
             \/ TargetExists(fs, Target)
             \/ Model.model_url = ""
             \/ Model.model_url # ""
      [] OTHER -> ENABLED NextBudget

\* C38: when every call returns, every run ends with a result, ok=true or
\* ok=false, after a bounded number of steps: before its end the run can
\* always take a step, every step moves it forward, and its positions are
\* bounded.  A run with the effective max preset count P sends at most
\* 2 * (2 + 4 * P) requests to the completion service, at most two of them
\* within one call.
C38_RunEndsWithinCompletionBudget ==
    /\ [](/\ r_pc # "done" => CanStep
          /\ r_pc = "done" => r_result # RunPending
          /\ IterationAt < IterationSpan
          /\ Position \in 0..End
          /\ completions <= CompletionBudget(PresetCount)
          /\ Len(g_sent) <= MaxAttempts
          /\ Len(rig_presets) <= PresetCount)
    /\ [][Position' > Position]_vars

\* A run for two presets has ended with ok=true after it spent its whole
\* budget: each of its ten calls sent two requests.
C38_Witness ==
    /\ r_pc = "done"
    /\ r_result.ok
    /\ PresetCount = 2
    /\ Len(rig_presets) = 2
    /\ completions = CompletionBudget(2)

====
